---------------------------- MODULE Spec2Model ----------------------------
(***************************************************************************)
(* Model of the surgical-command-center voice dictation front ends         *)
(* (src/dragon-integration): the command parser of vascular_commands.py    *)
(* and the narrative-buffer handlers of dragon_mvp.py (GUI),               *)
(* dragon_ssh_server.py (terminal) and dragon_headless.py (background      *)
(* service).                                                               *)
(*                                                                         *)
(* Text is modelled character by character: a Python str is a sequence of  *)
(* one-character strings, so that substring tests, replace(), strip(),     *)
(* lower() and the regular expressions are computed as Python computes     *)
(* them.  Transcripts are single-line texts whose only whitespace is the   *)
(* space character; the line feed occurs in templates and in the text the  *)
(* Tk widget hands back.                                                   *)
(***************************************************************************)
EXTENDS Naturals, Sequences, FiniteSets

VARIABLES
    frontend,      \* which program runs: "gui", "ssh" or "headless"
    macros,        \* self.macros: macro name -> template (loaded once)
    today,         \* datetime.now().strftime("%B %d, %Y")
    buffer,        \* self.current_buffer / the text widget's content
    ws_connected,  \* self.ws_connected
    text,          \* the transcript handed to the last process_command
    result,        \* what parser.parse returned for it
    before,        \* the buffer when that process_command began
    signal,        \* what the handler reported (print / update_status)
    sent,          \* messages handed to ws_client during that command
    client_connected,     \* ws_client.connected
    delivered,            \* the messages of `sent` the socket accepted
    is_recording,         \* self.is_recording
    recorder,             \* self.recorder: its stream, and whether frames have come in
    pc,                   \* thread -> where it is and the transcript it carries
    transcription_queue,  \* self.transcription_queue (GUI)
    polling,              \* root.after(100, self.process_queue) is pending (GUI)
    running,              \* self.running (terminal)
    recordings,           \* transcripts of the recordings stopped and not applied yet, oldest first
    peers                 \* front end -> narrative and report, all fed the same transcripts

\* the state of the hotkey, the recorder, the threads and the hand-over queue
threads == <<is_recording, recorder, pc, transcription_queue, polling, running, recordings>>

vars == <<frontend, macros, today, buffer, ws_connected,
          text, result, before, signal, sent,
          client_connected, delivered, is_recording, recorder, pc, transcription_queue,
          polling, running, recordings, peers>>

-----------------------------------------------------------------------------
(* Characters and the str methods the source uses.                         *)

LowerLetters == <<"a","b","c","d","e","f","g","h","i","j","k","l","m",
                  "n","o","p","q","r","s","t","u","v","w","x","y","z">>
UpperLetters == <<"A","B","C","D","E","F","G","H","I","J","K","L","M",
                  "N","O","P","Q","R","S","T","U","V","W","X","Y","Z">>
Digits == {"0","1","2","3","4","5","6","7","8","9"}
NL == "\n"

\* str.isspace for the characters that occur: space, tab, line feed.
IsSpace(c) == c \in {" ", "\t", "\n"}

LetterIndex(letters, c) ==
    IF \E i \in 1..26 : letters[i] = c
    THEN CHOOSE i \in 1..26 : letters[i] = c
    ELSE 0

LowerChar(c) ==
    LET i == LetterIndex(UpperLetters, c) IN IF i = 0 THEN c ELSE LowerLetters[i]

UpperChar(c) ==
    LET i == LetterIndex(LowerLetters, c) IN IF i = 0 THEN c ELSE UpperLetters[i]

\* str.lower()
Lower(s) == [i \in 1..Len(s) |-> LowerChar(s[i])]

\* str.upper()
Upper(s) == [i \in 1..Len(s) |-> UpperChar(s[i])]

RECURSIVE LStrip(_)
LStrip(s) == IF s # <<>> /\ IsSpace(Head(s)) THEN LStrip(Tail(s)) ELSE s

RECURSIVE RStrip(_)
RStrip(s) ==
    IF s # <<>> /\ IsSpace(s[Len(s)]) THEN RStrip(SubSeq(s, 1, Len(s) - 1)) ELSE s

\* str.strip()
Strip(s) == RStrip(LStrip(s))

\* s[i:].startswith(p), i counted from 1
MatchAt(s, p, i) ==
    /\ i >= 1
    /\ i + Len(p) - 1 <= Len(s)
    /\ \A k \in 1..Len(p) : s[i + k - 1] = p[k]

\* str.startswith
StartsWith(s, p) == MatchAt(s, p, 1)

RECURSIVE FindFrom(_, _, _)
\* str.find(p, i-1) + 1: the lowest index >= i at which p occurs in s, else 0
FindFrom(s, p, i) ==
    IF i + Len(p) - 1 > Len(s) THEN 0
    ELSE IF MatchAt(s, p, i) THEN i
    ELSE FindFrom(s, p, i + 1)

\* p in s
Contains(s, p) == FindFrom(s, p, 1) # 0

\* any(k in s for k in keywords)
ContainsAny(s, keywords) == \E k \in 1..Len(keywords) : Contains(s, keywords[k])

ReplaceAt(s, i, n, r) == SubSeq(s, 1, i - 1) \o r \o SubSeq(s, i + n, Len(s))

RECURSIVE ReplaceAll(_, _, _)
\* str.replace(p, r): every non-overlapping occurrence, left to right (p # "")
ReplaceAll(s, p, r) ==
    LET i == FindFrom(s, p, 1) IN
    IF i = 0 \/ p = <<>> THEN s
    ELSE SubSeq(s, 1, i - 1) \o r \o ReplaceAll(SubSeq(s, i + Len(p), Len(s)), p, r)

\* str.replace(p, r, 1): the leftmost occurrence only
ReplaceFirst(s, p, r) ==
    LET i == FindFrom(s, p, 1) IN
    IF i = 0 THEN s ELSE ReplaceAt(s, i, Len(p), r)


-----------------------------------------------------------------------------
(* vascular_commands.py: the normalizers.                                  *)

\* a (command_type, params) tuple, and Python's None
Command(kind, params) == [kind |-> kind, params |-> params]
None == [kind |-> "None"]
NoParams == [empty |-> TRUE]    \* the params dict {}

\* the lowest index >= i of a character of s that is in set, else 0
FirstWhere(s, set, i) ==
    LET at == {k \in i..Len(s) : s[k] \in set} IN
    IF at = {} THEN 0 ELSE CHOOSE k \in at : \A j \in at : k <= j

RECURSIVE RunEnd(_, _, _)
\* the last index of the run of characters of set that holds s[i]; i-1 if s[i] is not in set
RunEnd(s, set, i) ==
    IF i <= Len(s) /\ s[i] \in set THEN RunEnd(s, set, i + 1) ELSE i - 1

\* re.findall(r'\d+\.?\d*', value)[0]; <<>> when there is no match
FirstDecimal(value) ==
    LET i == FirstWhere(value, Digits, 1)
        j == RunEnd(value, Digits, i)
        k == IF j < Len(value) /\ value[j + 1] = "." THEN j + 1 ELSE j
    IN  IF i = 0 THEN <<>> ELSE SubSeq(value, i, RunEnd(value, Digits, k + 1))

\* re.findall(r'\d+', value)[0]; <<>> when there is no match
FirstInteger(value) ==
    LET i == FirstWhere(value, Digits, 1)
    IN  IF i = 0 THEN <<>> ELSE SubSeq(value, i, RunEnd(value, Digits, i))

normalize_length(value) ==
    LET length == FirstDecimal(value) IN
    IF length # <<>>
    THEN IF Contains(value, <<"c","e","n","t","i","m","e","t","e","r">> (* centimeter *)) \/ Contains(value, <<"c","m">> (* cm *))
         THEN length \o <<" ","c","m">> (*  cm *)
         ELSE IF Contains(value, <<"m","i","l","l","i","m","e","t","e","r">> (* millimeter *)) \/ Contains(value, <<"m","m">> (* mm *))
         THEN length \o <<" ","m","m">> (*  mm *)
         ELSE length \o <<" ","c","m">> (*  cm *)
    ELSE value

\* the treatments dict, in insertion order
treatments ==
    << <<<<"p","t","a">> (* pta *), <<"P","T","A">> (* PTA *)>>,
       <<<<"a","n","g","i","o","p","l","a","s","t","y">> (* angioplasty *), <<"P","T","A">> (* PTA *)>>,
       <<<<"b","a","l","l","o","o","n">> (* balloon *), <<"P","T","A">> (* PTA *)>>,
       <<<<"s","t","e","n","t">> (* stent *), <<"S","t","e","n","t">> (* Stent *)>>,
       <<<<"s","t","e","n","t","i","n","g">> (* stenting *), <<"S","t","e","n","t">> (* Stent *)>>,
       <<<<"a","t","h","e","r","e","c","t","o","m","y">> (* atherectomy *), <<"A","t","h","e","r","e","c","t","o","m","y">> (* Atherectomy *)>>,
       <<<<"t","p","a">> (* tpa *), <<"T","P","A">> (* TPA *)>>,
       <<<<"t","h","r","o","m","b","o","l","y","s","i","s">> (* thrombolysis *), <<"M","e","c","h","a","n","i","c","a","l"," ","T","h","r","o","m","b","o","l","y","s","i","s">> (* Mechanical Thrombolysis *)>> >>

RECURSIVE FirstTreatment(_, _, _)
\* for key, normalized in treatments.items(): if key in value_lower: return normalized
FirstTreatment(value_lower, value, i) ==
    IF i > Len(treatments) THEN value
    ELSE IF Contains(value_lower, treatments[i][1]) THEN treatments[i][2]
    ELSE FirstTreatment(value_lower, value, i + 1)

normalize_treatment(value) ==
    LET value_lower == Lower(value) IN
    IF /\ Contains(value_lower, <<"p","t","a">> (* pta *)) \/ Contains(value_lower, <<"a","n","g","i","o","p","l","a","s","t","y">> (* angioplasty *))
       /\ Contains(value_lower, <<"s","t","e","n","t">> (* stent *))
    THEN <<"P","T","A"," ","+"," ","S","t","e","n","t">> (* PTA + Stent *)
    ELSE FirstTreatment(value_lower, value, 1)

\* the TASC normalizer looking for capital letters only (not what the source does)
normalize_tasc_capitals(value) ==
    LET i == FirstWhere(value, {"A","B","C","D"}, 1) IN
    IF i # 0 THEN <<value[i]>> ELSE Upper(value)

normalize_tasc(value) ==
    LET i == FirstWhere(value, {"a","b","c","d","A","B","C","D"}, 1) IN
    IF i # 0 THEN <<UpperChar(value[i])>> ELSE Upper(value)

normalize_calcification(value) ==
    LET v == Lower(value) IN
    IF Contains(v, <<"n","o","n","e">> (* none *)) THEN <<"n","o","n","e">> (* none *)
    ELSE IF Contains(v, <<"m","i","l","d">> (* mild *)) THEN <<"m","i","l","d">> (* mild *)
    ELSE IF Contains(v, <<"m","o","d","e","r","a","t","e">> (* moderate *)) THEN <<"m","o","d","e","r","a","t","e">> (* moderate *)
    ELSE IF Contains(v, <<"s","e","v","e","r","e">> (* severe *)) \/ Contains(v, <<"h","e","a","v","y">> (* heavy *)) THEN <<"s","e","v","e","r","e">> (* severe *)
    ELSE value

\* the side normalizer looking for "right" first (not what the source does)
normalize_side_right_first(value) ==
    LET v == Lower(value) IN
    IF Contains(v, <<"r","i","g","h","t">> (* right *)) THEN <<"r","i","g","h","t">> (* right *)
    ELSE IF Contains(v, <<"l","e","f","t">> (* left *)) THEN <<"l","e","f","t">> (* left *)
    ELSE IF Contains(v, <<"b","o","t","h">> (* both *)) \/ Contains(v, <<"b","i","l","a","t","e","r","a","l">> (* bilateral *)) THEN <<"b","i","l","a","t","e","r","a","l">> (* bilateral *)
    ELSE value

normalize_side(value) ==
    LET v == Lower(value) IN
    IF Contains(v, <<"l","e","f","t">> (* left *)) THEN <<"l","e","f","t">> (* left *)
    ELSE IF Contains(v, <<"r","i","g","h","t">> (* right *)) THEN <<"r","i","g","h","t">> (* right *)
    ELSE IF Contains(v, <<"b","o","t","h">> (* both *)) \/ Contains(v, <<"b","i","l","a","t","e","r","a","l">> (* bilateral *)) THEN <<"b","i","l","a","t","e","r","a","l">> (* bilateral *)
    ELSE value

normalize_access(value) ==
    LET v == Lower(value) IN
    IF Contains(v, <<"f","e","m","o","r","a","l">> (* femoral *)) THEN <<"f","e","m","o","r","a","l">> (* femoral *)
    ELSE IF Contains(v, <<"r","a","d","i","a","l">> (* radial *)) THEN <<"r","a","d","i","a","l">> (* radial *)
    ELSE IF Contains(v, <<"b","r","a","c","h","i","a","l">> (* brachial *)) THEN <<"b","r","a","c","h","i","a","l">> (* brachial *)
    ELSE IF Contains(v, <<"p","o","p">> (* pop *)) \/ Contains(v, <<"p","o","p","l","i","t","e","a","l">> (* popliteal *)) THEN <<"p","o","p","l","i","t","e","a","l">> (* popliteal *)
    ELSE value

normalize_sheath(value) ==
    LET number == FirstInteger(value) IN
    IF number # <<>> THEN number \o <<"f","r">> (* fr *) ELSE value

normalize_closure(value) ==
    LET v == Lower(value) IN
    IF Contains(v, <<"m","y","n","x">> (* mynx *)) THEN <<"m","y","n","x">> (* mynx *)
    ELSE IF Contains(v, <<"m","a","n","u","a","l">> (* manual *)) \/ Contains(v, <<"p","r","e","s","s","u","r","e">> (* pressure *)) THEN <<"m","a","n","u","a","l">> (* manual *)
    ELSE value

-----------------------------------------------------------------------------
(* vascular_commands.py: the field / vessel resolver.                      *)

vessel_names ==
    << <<"c","o","m","m","o","n"," ","i","l","i","a","c">> (* common iliac *), <<"e","x","t","e","r","n","a","l"," ","i","l","i","a","c">> (* external iliac *), <<"c","o","m","m","o","n"," ","f","e","m","o","r","a","l">> (* common femoral *),
       <<"s","u","p","e","r","f","i","c","i","a","l"," ","f","e","m","o","r","a","l">> (* superficial femoral *), <<"p","r","o","f","u","n","d","a">> (* profunda *), <<"p","o","p","l","i","t","e","a","l">> (* popliteal *),
       <<"a","n","t","e","r","i","o","r"," ","t","i","b","i","a","l">> (* anterior tibial *), <<"p","o","s","t","e","r","i","o","r"," ","t","i","b","i","a","l">> (* posterior tibial *), <<"p","e","r","o","n","e","a","l">> (* peroneal *),
       <<"t","i","b","i","a","l"," ","p","e","r","o","n","e","a","l"," ","t","r","u","n","k">> (* tibial peroneal trunk *) >>

SetVesselField(vessel_key, property, value) ==
    Command("set_vessel_field",
            [vessel |-> vessel_key, property |-> property, value |-> value])

SetField(field, value) == Command("set_field", [field |-> field, value |-> value])

\* the body of the vessel loop with a property made of the phrase when no keyword
\* is there (not what the source does)
VesselPropertyDefaulting(vessel, field_name, value) ==
    LET vessel_key == ReplaceAll(vessel, <<" ">> (*   *), <<"_">> (* _ *)) IN
    IF Contains(field_name, <<"o","c","c","l","u","s","i","o","n">> (* occlusion *)) \/ Contains(field_name, <<"l","e","n","g","t","h">> (* length *))
    THEN SetVesselField(vessel_key, <<"o","c","c","l","u","s","i","o","n","_","l","e","n","g","t","h">> (* occlusion_length *), normalize_length(value))
    ELSE IF Contains(field_name, <<"t","r","e","a","t","m","e","n","t">> (* treatment *))
    THEN SetVesselField(vessel_key, <<"t","r","e","a","t","m","e","n","t">> (* treatment *), normalize_treatment(value))
    ELSE IF Contains(field_name, <<"t","a","s","c">> (* tasc *))
    THEN SetVesselField(vessel_key, <<"t","a","s","c">> (* tasc *), normalize_tasc(value))
    ELSE IF Contains(field_name, <<"c","a","l","c","i","f","i","c","a","t","i","o","n">> (* calcification *))
    THEN SetVesselField(vessel_key, <<"c","a","l","c","i","f","i","c","a","t","i","o","n">> (* calcification *), normalize_calcification(value))
    ELSE SetVesselField(vessel_key, ReplaceAll(field_name, <<" ">> (*   *), <<"_">> (* _ *)), value)

\* the body of the vessel loop with the treatment test before the occlusion / length
\* test (not what the source does)
VesselPropertyTreatmentFirst(vessel, field_name, value) ==
    LET vessel_key == ReplaceAll(vessel, <<" ">> (*   *), <<"_">> (* _ *)) IN
    IF Contains(field_name, <<"t","r","e","a","t","m","e","n","t">> (* treatment *))
    THEN SetVesselField(vessel_key, <<"t","r","e","a","t","m","e","n","t">> (* treatment *), normalize_treatment(value))
    ELSE IF Contains(field_name, <<"o","c","c","l","u","s","i","o","n">> (* occlusion *)) \/ Contains(field_name, <<"l","e","n","g","t","h">> (* length *))
    THEN SetVesselField(vessel_key, <<"o","c","c","l","u","s","i","o","n","_","l","e","n","g","t","h">> (* occlusion_length *), normalize_length(value))
    ELSE IF Contains(field_name, <<"t","a","s","c">> (* tasc *))
    THEN SetVesselField(vessel_key, <<"t","a","s","c">> (* tasc *), normalize_tasc(value))
    ELSE IF Contains(field_name, <<"c","a","l","c","i","f","i","c","a","t","i","o","n">> (* calcification *))
    THEN SetVesselField(vessel_key, <<"c","a","l","c","i","f","i","c","a","t","i","o","n">> (* calcification *), normalize_calcification(value))
    ELSE None

\* the body of "for vessel in self.vessel_names" for one vessel contained in field_name:
\* the command it returns, or None when no property keyword is there
VesselProperty(vessel, field_name, value) ==
    LET vessel_key == ReplaceAll(vessel, <<" ">> (*   *), <<"_">> (* _ *)) IN
    IF Contains(field_name, <<"o","c","c","l","u","s","i","o","n">> (* occlusion *)) \/ Contains(field_name, <<"l","e","n","g","t","h">> (* length *))
    THEN SetVesselField(vessel_key, <<"o","c","c","l","u","s","i","o","n","_","l","e","n","g","t","h">> (* occlusion_length *), normalize_length(value))
    ELSE IF Contains(field_name, <<"t","r","e","a","t","m","e","n","t">> (* treatment *))
    THEN SetVesselField(vessel_key, <<"t","r","e","a","t","m","e","n","t">> (* treatment *), normalize_treatment(value))
    ELSE IF Contains(field_name, <<"t","a","s","c">> (* tasc *))
    THEN SetVesselField(vessel_key, <<"t","a","s","c">> (* tasc *), normalize_tasc(value))
    ELSE IF Contains(field_name, <<"c","a","l","c","i","f","i","c","a","t","i","o","n">> (* calcification *))
    THEN SetVesselField(vessel_key, <<"c","a","l","c","i","f","i","c","a","t","i","o","n">> (* calcification *), normalize_calcification(value))
    ELSE None

RECURSIVE VesselLoopBackwards(_, _, _)
\* the loop taking self.vessel_names from the last name to the first
\* (not what the source does)
VesselLoopBackwards(field_name, value, i) ==
    LET vessel == vessel_names[Len(vessel_names) + 1 - i] IN
    IF i > Len(vessel_names) THEN None
    ELSE IF /\ Contains(field_name, vessel)
            /\ VesselProperty(vessel, field_name, value) # None
    THEN VesselProperty(vessel, field_name, value)
    ELSE VesselLoopBackwards(field_name, value, i + 1)

RECURSIVE VesselLoop(_, _, _)
\* the loop over self.vessel_names from index i on: the first return it reaches, else None
VesselLoop(field_name, value, i) ==
    IF i > Len(vessel_names) THEN None
    ELSE IF /\ Contains(field_name, vessel_names[i])
            /\ VesselProperty(vessel_names[i], field_name, value) # None
    THEN VesselProperty(vessel_names[i], field_name, value)
    ELSE VesselLoop(field_name, value, i + 1)

\* the "standard procedure fields" part with a default that keeps the phrase's
\* spaces (not what the source does)
StandardFieldSpaced(field_name, value) ==
    IF Contains(field_name, <<"s","i","d","e">> (* side *)) \/ Contains(field_name, <<"l","a","t","e","r","a","l","i","t","y">> (* laterality *))
    THEN SetField(<<"p","r","o","c","e","d","u","r","e","_","s","i","d","e">> (* procedure_side *), normalize_side(value))
    ELSE IF Contains(field_name, <<"a","c","c","e","s","s">> (* access *))
    THEN SetField(<<"a","c","c","e","s","s","_","s","i","t","e">> (* access_site *), normalize_access(value))
    ELSE IF Contains(field_name, <<"s","h","e","a","t","h">> (* sheath *))
    THEN SetField(<<"s","h","e","a","t","h","_","s","i","z","e">> (* sheath_size *), normalize_sheath(value))
    ELSE IF Contains(field_name, <<"c","l","o","s","u","r","e">> (* closure *)) \/ Contains(field_name, <<"m","y","n","x">> (* mynx *))
    THEN SetField(<<"c","l","o","s","u","r","e","_","m","e","t","h","o","d">> (* closure_method *), normalize_closure(value))
    ELSE SetField(field_name, value)

\* the "standard procedure fields" part with the sheath test first
\* (not what the source does)
StandardFieldSheathFirst(field_name, value) ==
    IF Contains(field_name, <<"s","h","e","a","t","h">> (* sheath *))
    THEN SetField(<<"s","h","e","a","t","h","_","s","i","z","e">> (* sheath_size *), normalize_sheath(value))
    ELSE IF Contains(field_name, <<"s","i","d","e">> (* side *)) \/ Contains(field_name, <<"l","a","t","e","r","a","l","i","t","y">> (* laterality *))
    THEN SetField(<<"p","r","o","c","e","d","u","r","e","_","s","i","d","e">> (* procedure_side *), normalize_side(value))
    ELSE IF Contains(field_name, <<"a","c","c","e","s","s">> (* access *))
    THEN SetField(<<"a","c","c","e","s","s","_","s","i","t","e">> (* access_site *), normalize_access(value))
    ELSE IF Contains(field_name, <<"c","l","o","s","u","r","e">> (* closure *)) \/ Contains(field_name, <<"m","y","n","x">> (* mynx *))
    THEN SetField(<<"c","l","o","s","u","r","e","_","m","e","t","h","o","d">> (* closure_method *), normalize_closure(value))
    ELSE SetField(ReplaceAll(field_name, <<" ">> (*   *), <<"_">> (* _ *)), value)

\* the "standard procedure fields" part, after the vessel loop
StandardField(field_name, value) ==
    IF Contains(field_name, <<"s","i","d","e">> (* side *)) \/ Contains(field_name, <<"l","a","t","e","r","a","l","i","t","y">> (* laterality *))
    THEN SetField(<<"p","r","o","c","e","d","u","r","e","_","s","i","d","e">> (* procedure_side *), normalize_side(value))
    ELSE IF Contains(field_name, <<"a","c","c","e","s","s">> (* access *))
    THEN SetField(<<"a","c","c","e","s","s","_","s","i","t","e">> (* access_site *), normalize_access(value))
    ELSE IF Contains(field_name, <<"s","h","e","a","t","h">> (* sheath *))
    THEN SetField(<<"s","h","e","a","t","h","_","s","i","z","e">> (* sheath_size *), normalize_sheath(value))
    ELSE IF Contains(field_name, <<"c","l","o","s","u","r","e">> (* closure *)) \/ Contains(field_name, <<"m","y","n","x">> (* mynx *))
    THEN SetField(<<"c","l","o","s","u","r","e","_","m","e","t","h","o","d">> (* closure_method *), normalize_closure(value))
    ELSE SetField(ReplaceAll(field_name, <<" ">> (*   *), <<"_">> (* _ *)), value)

parse_set_command(field_name, value) ==
    LET v == VesselLoop(field_name, value, 1) IN
    IF v # None THEN v ELSE StandardField(field_name, value)

-----------------------------------------------------------------------------
(* vascular_commands.py: the classifier.                                   *)

Whitespace == {" ", "\t", "\n"}

\* (?:to|is|as) at s[c+1..c+2], followed by whitespace
SeparatorAfter(s, c) ==
    /\ \/ MatchAt(s, <<"t","o">> (* to *), c + 1)
       \/ MatchAt(s, <<"i","s">> (* is *), c + 1)
       \/ MatchAt(s, <<"a","s">> (* as *), c + 1)
    /\ c + 3 <= Len(s)
    /\ IsSpace(s[c + 3])

\* the pattern with a field that takes as much as it can, (.+) for (.+?)
\* (not what the source does)
SetMatchGreedy(s) ==
    LET n == Len(s)
        kw == IF StartsWith(s, <<"s","e","t">> (* set *)) THEN 3 ELSE IF StartsWith(s, <<"f","i","l","l">> (* fill *)) THEN 4 ELSE 0
        a == RunEnd(s, Whitespace, kw + 1)
        FieldEndsAt(e) ==
            /\ \A q \in (a + 1)..e : s[q] # NL
            /\ e + 1 <= n
            /\ IsSpace(s[e + 1])
            /\ SeparatorAfter(s, RunEnd(s, Whitespace, e + 1))
        ends == {e \in (a + 1)..n : FieldEndsAt(e)}
        e == CHOOSE x \in ends : \A y \in ends : y <= x
        blanks == {q \in (kw + 2)..(a - 1) : s[q] # NL}
        c == IF ends # {} THEN RunEnd(s, Whitespace, e + 1) ELSE a
        d == RunEnd(s, Whitespace, c + 3)
        nl == FirstWhere(s, {NL}, d + 1)
        m == IF nl = 0 THEN n ELSE nl - 1
        NoMatch == [ok |-> FALSE, field |-> <<>>, value |-> <<>>]
    IN  IF kw = 0 \/ a <= kw THEN NoMatch
        ELSE IF ends # {}
        THEN [ok |-> TRUE, field |-> SubSeq(s, a + 1, e), value |-> SubSeq(s, d + 1, m)]
        ELSE IF blanks # {} /\ SeparatorAfter(s, a)
        THEN [ok |-> TRUE,
              field |-> LET q == CHOOSE x \in blanks : \A y \in blanks : y <= x
                        IN  <<s[q]>>,
              value |-> SubSeq(s, d + 1, m)]
        ELSE NoMatch

\* re.match(r"(?:set|fill)\s+(.+?)\s+(?:to|is|as)\s+(.+)", s) for a stripped s:
\* [ok, field, value], the two groups as the backtracking matcher binds them.
\*   a: end of the first \s+ (greedy);  e: end of the field (the least that
\*   lets the rest match);  c: end of the second \s+;  d: end of the third.
\* When no field after the whole first run works, the matcher gives back
\* characters of the first \s+ and the field is a blank inside that run.
SetMatch(s) ==
    LET n == Len(s)
        kw == IF StartsWith(s, <<"s","e","t">> (* set *)) THEN 3 ELSE IF StartsWith(s, <<"f","i","l","l">> (* fill *)) THEN 4 ELSE 0
        a == RunEnd(s, Whitespace, kw + 1)
        FieldEndsAt(e) ==
            /\ \A q \in (a + 1)..e : s[q] # NL
            /\ e + 1 <= n
            /\ IsSpace(s[e + 1])
            /\ SeparatorAfter(s, RunEnd(s, Whitespace, e + 1))
        ends == {e \in (a + 1)..n : FieldEndsAt(e)}
        e == CHOOSE x \in ends : \A y \in ends : x <= y
        blanks == {q \in (kw + 2)..(a - 1) : s[q] # NL}
        c == IF ends # {} THEN RunEnd(s, Whitespace, e + 1) ELSE a
        d == RunEnd(s, Whitespace, c + 3)
        nl == FirstWhere(s, {NL}, d + 1)
        m == IF nl = 0 THEN n ELSE nl - 1
        NoMatch == [ok |-> FALSE, field |-> <<>>, value |-> <<>>]
    IN  IF kw = 0 \/ a <= kw THEN NoMatch
        ELSE IF ends # {}
        THEN [ok |-> TRUE, field |-> SubSeq(s, a + 1, e), value |-> SubSeq(s, d + 1, m)]
        ELSE IF blanks # {} /\ SeparatorAfter(s, a)
        THEN [ok |-> TRUE,
              field |-> LET q == CHOOSE x \in blanks : \A y \in blanks : y <= x
                        IN  <<s[q]>>,
              value |-> SubSeq(s, d + 1, m)]
        ELSE NoMatch

SaveKeywords == << <<"s","a","v","e"," ","p","r","o","c","e","d","u","r","e">> (* save procedure *), <<"s","a","v","e"," ","n","o","t","e">> (* save note *), <<"c","o","m","p","l","e","t","e"," ","p","r","o","c","e","d","u","r","e">> (* complete procedure *) >>

\* a classifier that looks for the save phrases before the set/fill pattern
\* (not what the source does)
parse_save_first(t) ==
    LET text_clean == Strip(Lower(t))
        macro_name == Strip(ReplaceAll(text_clean, <<"i","n","s","e","r","t"," ">> (* insert  *), <<>>))
        set_match == SetMatch(text_clean)
    IN  IF /\ StartsWith(text_clean, <<"i","n","s","e","r","t"," ">> (* insert  *))
           /\ Contains(macro_name, <<"v","a","s","c","u","l","a","r">> (* vascular *)) \/ Contains(macro_name, <<"p","r","o","c","e","d","u","r","e">> (* procedure *))
        THEN Command("insert_macro", [macro_name |-> <<"v","a","s","c","u","l","a","r","_","p","r","o","c","e","d","u","r","e">> (* vascular_procedure *)])
        ELSE IF ContainsAny(text_clean, SaveKeywords)
        THEN Command("save_procedure", NoParams)
        ELSE IF set_match.ok
        THEN parse_set_command(Strip(set_match.field), Strip(set_match.value))
        ELSE IF Contains(text_clean, <<"c","l","e","a","r"," ","b","u","f","f","e","r">> (* clear buffer *)) \/ Contains(text_clean, <<"s","t","a","r","t"," ","o","v","e","r">> (* start over *))
        THEN Command("clear_buffer", NoParams)
        ELSE IF Contains(text_clean, <<"s","h","o","w"," ","f","i","e","l","d","s">> (* show fields *)) \/ Contains(text_clean, <<"w","h","a","t"," ","f","i","e","l","d","s">> (* what fields *))
        THEN Command("show_fields", NoParams)
        ELSE None

\* a classifier that trims the transcript and leaves its letters as they are
\* (not what the source does)
parse_as_written(t) ==
    LET text_clean == Strip(t)
        macro_name == Strip(ReplaceAll(text_clean, <<"i","n","s","e","r","t"," ">> (* insert  *), <<>>))
        set_match == SetMatch(text_clean)
    IN  IF /\ StartsWith(text_clean, <<"i","n","s","e","r","t"," ">> (* insert  *))
           /\ Contains(macro_name, <<"v","a","s","c","u","l","a","r">> (* vascular *)) \/ Contains(macro_name, <<"p","r","o","c","e","d","u","r","e">> (* procedure *))
        THEN Command("insert_macro", [macro_name |-> <<"v","a","s","c","u","l","a","r","_","p","r","o","c","e","d","u","r","e">> (* vascular_procedure *)])
        ELSE IF set_match.ok
        THEN parse_set_command(Strip(set_match.field), Strip(set_match.value))
        ELSE IF ContainsAny(text_clean, SaveKeywords)
        THEN Command("save_procedure", NoParams)
        ELSE IF Contains(text_clean, <<"c","l","e","a","r"," ","b","u","f","f","e","r">> (* clear buffer *)) \/ Contains(text_clean, <<"s","t","a","r","t"," ","o","v","e","r">> (* start over *))
        THEN Command("clear_buffer", NoParams)
        ELSE IF Contains(text_clean, <<"s","h","o","w"," ","f","i","e","l","d","s">> (* show fields *)) \/ Contains(text_clean, <<"w","h","a","t"," ","f","i","e","l","d","s">> (* what fields *))
        THEN Command("show_fields", NoParams)
        ELSE None

\* VascularCommandParser.parse
parse(t) ==
    LET text_clean == Strip(Lower(t))
        macro_name == Strip(ReplaceAll(text_clean, <<"i","n","s","e","r","t"," ">> (* insert  *), <<>>))
        set_match == SetMatch(text_clean)
    IN  IF /\ StartsWith(text_clean, <<"i","n","s","e","r","t"," ">> (* insert  *))
           /\ Contains(macro_name, <<"v","a","s","c","u","l","a","r">> (* vascular *)) \/ Contains(macro_name, <<"p","r","o","c","e","d","u","r","e">> (* procedure *))
        THEN Command("insert_macro", [macro_name |-> <<"v","a","s","c","u","l","a","r","_","p","r","o","c","e","d","u","r","e">> (* vascular_procedure *)])
        ELSE IF set_match.ok
        THEN parse_set_command(Strip(set_match.field), Strip(set_match.value))
        ELSE IF ContainsAny(text_clean, SaveKeywords)
        THEN Command("save_procedure", NoParams)
        ELSE IF Contains(text_clean, <<"c","l","e","a","r"," ","b","u","f","f","e","r">> (* clear buffer *)) \/ Contains(text_clean, <<"s","t","a","r","t"," ","o","v","e","r">> (* start over *))
        THEN Command("clear_buffer", NoParams)
        ELSE IF Contains(text_clean, <<"s","h","o","w"," ","f","i","e","l","d","s">> (* show fields *)) \/ Contains(text_clean, <<"w","h","a","t"," ","f","i","e","l","d","s">> (* what fields *))
        THEN Command("show_fields", NoParams)
        ELSE None

-----------------------------------------------------------------------------
(* The narrative buffer and its handlers, as the three front ends write    *)
(* them.  The terminal and background-service programs keep the narrative  *)
(* in self.current_buffer; the GUI keeps it in a Tk text widget, whose     *)
(* get("1.0", tk.END) returns the content followed by the line feed Tk     *)
(* keeps after the last line.  `buffer` is current_buffer, respectively    *)
(* the widget's content without that final line feed.                      *)

FrontEnds == {"gui", "ssh", "headless"}

\* self.text_widget.get("1.0", tk.END)
WidgetGet(content) == content \o <<NL>>

\* the text a handler of front end fe reads the narrative as
CurrentText(fe, buf) == IF fe = "gui" THEN WidgetGet(buf) ELSE buf

Outcome(buf, sig) == [buf |-> buf, sig |-> sig]
Signal(msg) == [msg |-> msg]

\* f"{{{field}}}"
Placeholder(name) == <<"{">> \o name \o <<"}">>

\* how many fields show_remaining_fields lists before it only counts them
ShownFieldsTerminal == 10
ShownFieldsGui == 5

\* a findall that gives each name once (not what the source does)
FindAllFieldsDistinct(s, i) ==
    LET text_ == s
        from[k \in 1..(Len(text_) + 1)] ==
            LET open == FirstWhere(text_, {"{"}, k)
                close == FirstWhere(text_, {"}"}, open + 1)
            IN  IF open = 0 \/ close = 0 THEN <<>>
                ELSE IF close = open + 1 THEN from[open + 1]
                ELSE LET name == SubSeq(text_, open + 1, close - 1)
                         rest == from[close + 1]
                     IN  IF \E q \in DOMAIN rest : rest[q] = name THEN rest
                         ELSE <<name>> \o rest
    IN  from[i]

\* re.findall(r'\{([^}]+)\}', s[i-1:]): the groups, left to right, non-overlapping
FindAllFields(s, i) ==
    LET text_ == s
        from[k \in 1..(Len(text_) + 1)] ==
            LET open == FirstWhere(text_, {"{"}, k)
                close == FirstWhere(text_, {"}"}, open + 1)
            IN  IF open = 0 \/ close = 0 THEN <<>>
                ELSE IF close = open + 1 THEN from[open + 1]
                ELSE <<SubSeq(text_, open + 1, close - 1)>> \o from[close + 1]
    IN  from[i]

\* the expansion of {date} that forgets later occurrences (not what the source does)
ExpandDateOnce(template, date) == ReplaceFirst(template, <<"{","d","a","t","e","}">> (* {date} *), date)

\* template.replace("{date}", datetime.now().strftime("%B %d, %Y"))
ExpandDate(template, date) == ReplaceAll(template, <<"{","d","a","t","e","}">> (* {date} *), date)

\* an insert that puts the template after what the narrative holds (not what the
\* source does)
handle_insert_macro_keeping(fe, buf, params, loaded, date) ==
    LET macro_name == params.macro_name IN
    IF macro_name \in DOMAIN loaded
    THEN LET template == loaded[macro_name] IN
         Outcome(buf \o (IF Contains(template, <<"{","d","a","t","e","}">> (* {date} *)) THEN ExpandDate(template, date)
                         ELSE template),
                 Signal("template_loaded"))
    ELSE Outcome(buf, Signal("macro_not_found"))

\* an insert that empties the narrative when the macro is missing (not what the source does)
handle_insert_macro_clearing(fe, buf, params, loaded, date) ==
    LET macro_name == params.macro_name IN
    IF macro_name \in DOMAIN loaded
    THEN LET template == loaded[macro_name] IN
         Outcome(IF Contains(template, <<"{","d","a","t","e","}">> (* {date} *)) THEN ExpandDate(template, date)
                 ELSE template,
                 Signal("template_loaded"))
    ELSE Outcome(<<>>, Signal("macro_not_found"))

handle_insert_macro(fe, buf, params, loaded, date) ==
    LET macro_name == params.macro_name IN
    IF macro_name \in DOMAIN loaded
    THEN LET template == loaded[macro_name] IN
         Outcome(IF Contains(template, <<"{","d","a","t","e","}">> (* {date} *)) THEN ExpandDate(template, date)
                 ELSE template,
                 Signal("template_loaded"))
    ELSE Outcome(buf, Signal("macro_not_found"))

\* a set_field that replaces without looking first and always reports success
\* (not what the source does)
handle_set_field_unchecked(fe, buf, params) ==
    Outcome(ReplaceFirst(CurrentText(fe, buf), Placeholder(params.field), params.value),
            Signal("field_set"))

handle_set_field(fe, buf, params) ==
    LET placeholder == Placeholder(params.field)
        current_text == CurrentText(fe, buf)
    IN  IF Contains(current_text, placeholder)
        THEN Outcome(ReplaceFirst(current_text, placeholder, params.value),
                     Signal("field_set"))
        ELSE Outcome(buf, Signal("field_not_found"))

\* the synthesized phrase with the property compared to "occlusion" (not what the source does)
VesselTextShortKey(prop, value) ==
    IF prop = <<"o","c","c","l","u","s","i","o","n">> (* occlusion *) THEN <<"O","c","c","l","u","s","i","o","n",":"," ">> (* Occlusion:  *) \o value ELSE <<"T","r","e","a","t","m","e","n","t",":"," ">> (* Treatment:  *) \o value

\* f"Occlusion: {value}" if prop == "occlusion_length" else f"Treatment: {value}"
VesselText(prop, value) ==
    IF prop = <<"o","c","c","l","u","s","i","o","n","_","l","e","n","g","t","h">> (* occlusion_length *) THEN <<"O","c","c","l","u","s","i","o","n",":"," ">> (* Occlusion:  *) \o value ELSE <<"T","r","e","a","t","m","e","n","t",":"," ">> (* Treatment:  *) \o value

handle_set_vessel_field(fe, buf, params) ==
    LET placeholder == Placeholder(params.vessel \o <<"_">> \o params.property)
        alt_placeholder == Placeholder(params.vessel)
        current_text == CurrentText(fe, buf)
    IN  IF Contains(current_text, placeholder)
        THEN Outcome(ReplaceFirst(current_text, placeholder, params.value),
                     Signal("field_set"))
        ELSE IF Contains(current_text, alt_placeholder)
        THEN Outcome(ReplaceFirst(current_text, alt_placeholder,
                                  VesselText(params.property, params.value)),
                     Signal("vessel_updated"))
        ELSE IF fe = "gui"
        THEN Outcome(buf, Signal("nothing"))   \* the GUI handler has no else branch
        ELSE Outcome(buf, Signal("field_not_found"))

show_remaining_fields(fe, buf) ==
    LET fields == FindAllFields(CurrentText(fe, buf), 1)
        limit == IF fe = "gui" THEN ShownFieldsGui ELSE ShownFieldsTerminal
    IN  IF fields # <<>>
        THEN Outcome(buf, [msg |-> "remaining_fields",
                           listed |-> SubSeq(fields, 1, IF Len(fields) < limit
                                                        THEN Len(fields) ELSE limit),
                           total |-> Len(fields)])
        ELSE Outcome(buf, Signal("all_fields_filled"))

\* what save_procedure hands to ws_client.send_command
SaveMessage(fe, buf) ==
    [command |-> "save_procedure",
     params |-> [narrative |-> IF fe = "gui" THEN Strip(WidgetGet(buf)) ELSE buf,
                 status |-> "completed"]]

\* the save_procedure branch with a save that empties the narrative when there is
\* no backend (not what the source does)
handle_save_dropping(fe, buf, connected) ==
    IF connected THEN Outcome(buf, Signal("procedure_saved"))
    ELSE IF fe = "gui" THEN Outcome(<<>>, Signal("nothing"))
    ELSE Outcome(<<>>, Signal("cannot_save"))

\* the save_procedure branch of process_command
handle_save(fe, buf, connected) ==
    IF connected THEN Outcome(buf, Signal("procedure_saved"))
    ELSE IF fe = "gui" THEN Outcome(buf, Signal("nothing"))
    ELSE Outcome(buf, Signal("cannot_save"))

\* the narration branch of process_command, appending the cleaned text
\* (not what the source does)
AppendNarrationCleaned(buf, t) == Outcome(buf \o <<" ">> (*   *) \o Strip(Lower(t)), Signal("appended"))

\* self.current_buffer += " " + text
AppendNarration(buf, t) == Outcome(buf \o <<" ">> (*   *) \o t, Signal("appended"))

\* process_command once the parser has returned: the new narrative and the report
Dispatch(fe, buf, t, r, loaded, date, connected) ==
    IF r = None
    THEN AppendNarration(buf, t)
    ELSE IF r.kind = "insert_macro" THEN handle_insert_macro(fe, buf, r.params, loaded, date)
    ELSE IF r.kind = "set_field" THEN handle_set_field(fe, buf, r.params)
    ELSE IF r.kind = "set_vessel_field" THEN handle_set_vessel_field(fe, buf, r.params)
    ELSE IF r.kind = "save_procedure" THEN handle_save(fe, buf, connected)
    ELSE IF r.kind = "clear_buffer" THEN Outcome(<<>>, Signal("buffer_cleared"))
    ELSE show_remaining_fields(fe, buf)

\* the ws_client.send_command calls process_command makes, in order
SendCalls(fe, buf, r, connected) ==
    IF r = None \/ ~connected THEN <<>>
    ELSE (IF r.kind = "save_procedure" THEN <<SaveMessage(fe, buf)>> ELSE <<>>)
         \o <<[command |-> r.kind, params |-> r.params]>>

\* WebSocketClient.send on each message in turn: nothing leaves when the client is
\* not connected; a send that raises is logged and the next message is tried
Transmit(msgs, connected, accepts) ==
    LET upto[k \in 0..Len(msgs)] ==
            IF k = 0 THEN <<>>
            ELSE IF connected /\ accepts[k] THEN Append(upto[k - 1], msgs[k])
            ELSE upto[k - 1]
    IN  upto[Len(msgs)]

\* for each send of a command, whether websocket.send returns or raises
SendOutcomes == [{1, 2} -> BOOLEAN]
\* every websocket.send returns
Accepted == [k \in {1, 2} |-> TRUE]

\* a thread: where it is, and the transcript it carries
Where(at, t) == [at |-> at, text |-> t]
Idle == Where("idle", <<>>)

\* Recorder(): _stream is None and _frames is empty
Recorder == [stream |-> "none", frames |-> "none"]

\* Recorder.start_recording: the frames are dropped and a new stream is started
start_recording == [stream |-> "started", frames |-> "none"]

\* Recorder.stop_recording: the stream, if there is one, is stopped and closed, and
\* the frames are written to a file if there are any
stop_recording(rec) ==
    IF rec.stream = "none" THEN [rec |-> rec, audio_file |-> FALSE]
    ELSE [rec |-> [rec EXCEPT !.stream = "stopped"], audio_file |-> rec.frames = "some"]

RECURSIVE WithoutFirst(_, _)
\* the sequence s without the first of its elements that is x
WithoutFirst(s, x) ==
    IF s = <<>> THEN <<>>
    ELSE IF Head(s) = x THEN Tail(s)
    ELSE <<Head(s)>> \o WithoutFirst(Tail(s), x)


-----------------------------------------------------------------------------
(* The inputs the model is run on.                                         *)

\* config/macros.json is not part of the sources: what the file holds, when it is
\* there, is drawn from MacroFiles.
NoMacros == [n \in {} |-> <<>>]

TemplateA == <<"{","d","a","t","e","}"," ","{","s","h","e","a","t","h","_","s","i","z","e","}"," ","{","s","h","e","a","t","h","_","s","i","z","e","}"," ","{","d","a","t","e","}">> (* {date} {sheath_size} {sheath_size} {date} *)
TemplateB == <<"{","p","e","r","o","n","e","a","l","_","t","a","s","c","}"," ","{","p","e","r","o","n","e","a","l","}"," ","{","n","o","t","e","}">> (* {peroneal_tasc} {peroneal} {note} *)

MacroFiles ==
    { [n \in {<<"v","a","s","c","u","l","a","r","_","p","r","o","c","e","d","u","r","e">> (* vascular_procedure *)} |-> TemplateA],
      [n \in {<<"v","a","s","c","u","l","a","r","_","p","r","o","c","e","d","u","r","e">> (* vascular_procedure *), <<"c","o","n","s","u","l","t">> (* consult *)} |->
          IF n = <<"c","o","n","s","u","l","t">> (* consult *) THEN <<"{","d","a","t","e","}">> (* {date} *) ELSE TemplateB] }

\* _load_json(path): {} when the file does not exist, else what it holds
load_json(exists, content) == IF ~exists THEN NoMacros ELSE content

\* strftime("%B %d, %Y") on two consecutive days
Dates == << <<"M","a","y"," ","0","9",","," ","2","0","2","5">> (* May 09, 2025 *), <<"M","a","y"," ","1","0",","," ","2","0","2","5">> (* May 10, 2025 *) >>

\* what the transcriber hands over: stripped, single-line text
Transcripts ==
    { <<"i","n","s","e","r","t"," ","p","r","o","c","e","d","u","r","e">> (* insert procedure *),
      <<"I","n","s","e","r","t"," ","c","o","i","n">> (* Insert coin *),
      <<"S","e","t"," ","S","h","e","a","t","h"," ","t","o"," ","5">> (* Set Sheath to 5 *),
      <<"s","e","t"," ","p","e","r","o","n","e","a","l"," ","t","a","s","c"," ","t","o"," ","b">> (* set peroneal tasc to b *),
      <<"s","e","t"," ","p","e","r","o","n","e","a","l"," ","l","e","n","g","t","h"," ","t","o"," ","3"," ","m","m">> (* set peroneal length to 3 mm *),
      <<"s","e","t"," ","n","o","t","e"," ","t","o"," ","{","n","o","t","e","}"," ","{","n","o","t","e","}">> (* set note to {note} {note} *),
      <<"s","a","v","e"," ","n","o","t","e"," ","a","n","d"," ","c","l","e","a","r"," ","b","u","f","f","e","r">> (* save note and clear buffer *),
      <<"s","t","a","r","t"," ","o","v","e","r">> (* start over *),
      <<"s","h","o","w"," ","f","i","e","l","d","s">> (* show fields *) }

\* what the user says to fill the placeholders show_fields lists
FillTranscripts ==
    { <<"S","e","t"," ","S","h","e","a","t","h"," ","t","o"," ","5">> (* Set Sheath to 5 *),
      <<"s","e","t"," ","s","h","e","a","t","h"," ","t","o"," ","6">> (* set sheath to 6 *),
      <<"s","e","t"," ","p","e","r","o","n","e","a","l"," ","t","a","s","c"," ","t","o"," ","b">> (* set peroneal tasc to b *),
      <<"s","e","t"," ","p","e","r","o","n","e","a","l"," ","l","e","n","g","t","h"," ","t","o"," ","3"," ","m","m">> (* set peroneal length to 3 mm *),
      <<"s","e","t"," ","n","o","t","e"," ","t","o"," ","o","k">> (* set note to ok *),
      <<"s","e","t"," ","n","o","t","e"," ","t","o"," ","{","m","e","m","o","}">> (* set note to {memo} *),
      <<"s","e","t"," ","m","e","m","o"," ","t","o"," ","{","n","o","t","e","}">> (* set memo to {note} *) }

\* a macros.json whose procedure template has more placeholders than
\* show_remaining_fields lists, one of them twice, and braces that hold no name
TemplateFields == <<"{","a","}","{","b","}","{","a","}","{","}","{","c","{","d","}","{","e","}","{","f","}","{","g","}","{","h","}","{","i","}","{","j","}","{","k","}">> (* {a}{b}{a}{}{c{d}{e}{f}{g}{h}{i}{j}{k} *)
FieldsMacroFiles == { [n \in {<<"v","a","s","c","u","l","a","r","_","p","r","o","c","e","d","u","r","e">> (* vascular_procedure *)} |-> TemplateFields] }

\* what is said while the placeholders are listed
FieldsTranscripts ==
    { <<"i","n","s","e","r","t"," ","p","r","o","c","e","d","u","r","e">> (* insert procedure *), <<"s","h","o","w"," ","f","i","e","l","d","s">> (* show fields *), <<"s","t","a","r","t"," ","o","v","e","r">> (* start over *), <<"s","e","t"," ","a"," ","t","o"," ","1">> (* set a to 1 *), <<"s","e","t"," ","k"," ","t","o"," ","2">> (* set k to 2 *) }

\* narratives longer than this are not explored
MaxBufferLen == 56

\* at most this many recordings are being transcribed at once (GUI)
MaxWorkers == 2

\* the thread of the main loop, the thread of the hotkey listener, and the threads
\* toggle_recording starts for transcribe_audio_thread
Main == <<"main", 0>>
Listener == <<"listener", 0>>
Workers == {<<"worker", k>> : k \in 1..MaxWorkers}
Threads == {Main, Listener} \cup Workers

\* parser.parse on each transcript
Parsed == [t \in Transcripts \cup FillTranscripts \cup FieldsTranscripts |-> parse(t)]

-----------------------------------------------------------------------------
(* The program: construction, then one process_command per transcript.     *)

\* __init__ and start, config/macros.json being absent or one of `files`
Start(files) ==
    /\ frontend \in FrontEnds
    /\ \E exists \in BOOLEAN, content \in files : macros = load_json(exists, content)
    /\ today = Dates[1]
    /\ buffer = <<>>
    /\ ws_connected \in BOOLEAN
    /\ text = <<>>
    /\ result = None
    /\ before = <<>>
    /\ signal = Signal("ready")
    /\ sent = <<>>
    /\ client_connected = ws_connected
    /\ delivered = <<>>
    /\ is_recording = FALSE
    /\ recorder = Recorder
    /\ pc = [th \in Threads |-> Idle]
    /\ transcription_queue = <<>>
    /\ polling = (frontend = "gui")
    /\ running = TRUE
    /\ recordings = <<>>
    /\ peers = [fe \in FrontEnds |-> Outcome(<<>>, Signal("ready"))]

Init == Start(MacroFiles)

\* process_command(text), the sockets answering the sends as `accepts` says
Apply(t, accepts) ==
    LET r == Parsed[t]
        out == Dispatch(frontend, buffer, t, r, macros, today, ws_connected)
    IN  /\ Len(out.buf) <= MaxBufferLen
        /\ buffer' = out.buf
        /\ signal' = out.sig
        /\ text' = t
        /\ result' = r
        /\ before' = buffer
        /\ sent' = SendCalls(frontend, buffer, r, ws_connected)
        /\ delivered' = Transmit(sent', client_connected, accepts)
        /\ UNCHANGED <<frontend, macros, today, ws_connected, client_connected>>

\* process_command(text) of a session whose recordings are transcribed and applied
\* one after the other, over a socket that accepts what is sent
ProcessCommand(t) ==
    /\ Apply(t, Accepted)
    /\ UNCHANGED <<threads, peers>>

\* midnight passes: datetime.now() moves to the next day
DayPasses ==
    /\ today = Dates[1]
    /\ today' = Dates[2]
    /\ UNCHANGED <<frontend, macros, buffer, ws_connected, text, result, before, signal, sent,
                   client_connected, delivered, threads, peers>>

Next ==
    \/ \E t \in Transcripts : ProcessCommand(t)
    \/ DayPasses

Spec == Init /\ [][Next]_vars

-----------------------------------------------------------------------------
(* The classifier on its own: a transcript is drawn, parser.parse is       *)
(* applied to it.                                                          *)

\* phrases the transcripts of SpecParse are put together from
Phrases ==
    << <<"i","n","s","e","r","t">> (* insert *), <<"v","a","s","c","u","l","a","r">> (* vascular *), <<"p","r","o","c","e","d","u","r","e">> (* procedure *), <<"s","e","t"," ","x"," ","t","o">> (* set x to *), <<"F","i","l","l"," ","y"," ","a","s">> (* Fill y as *),
       <<"s","a","v","e"," ","p","r","o","c","e","d","u","r","e">> (* save procedure *), <<"s","a","v","e"," ","n","o","t","e">> (* save note *), <<"c","o","m","p","l","e","t","e"," ","p","r","o","c","e","d","u","r","e">> (* complete procedure *),
       <<"c","l","e","a","r"," ","b","u","f","f","e","r">> (* clear buffer *), <<"s","t","a","r","t"," ","o","v","e","r">> (* start over *), <<"s","h","o","w"," ","f","i","e","l","d","s">> (* show fields *), <<"w","h","a","t"," ","f","i","e","l","d","s">> (* what fields *), <<"n","o","w">> (* now *) >>

\* a transcript has at most this many phrases
MaxPhrases == 3

RECURSIVE JoinPhrases(_)
\* " ".join(ws)
JoinPhrases(ws) ==
    IF Len(ws) = 0 THEN <<>>
    ELSE IF Len(ws) = 1 THEN ws[1]
    ELSE ws[1] \o <<" ">> (*   *) \o JoinPhrases(Tail(ws))

\* the transcripts of at most MaxPhrases of the phrases
Joined(phrases) ==
    { JoinPhrases([i \in DOMAIN ix |-> phrases[ix[i]]]) :
        ix \in UNION { [1..k -> 1..Len(phrases)] : k \in 1..MaxPhrases } }

ParseInputs == Joined(Phrases)

\* a parser is about to be handed one of the transcripts `inputs`
StartParse(inputs) ==
    /\ frontend = "headless"
    /\ macros = NoMacros
    /\ today = Dates[1]
    /\ buffer = <<>>
    /\ ws_connected = FALSE
    /\ text \in inputs
    /\ result = None
    /\ before = <<>>
    /\ signal = Signal("ready")
    /\ sent = <<>>
    /\ client_connected = FALSE
    /\ delivered = <<>>
    /\ is_recording = FALSE
    /\ recorder = Recorder
    /\ pc = [th \in Threads |-> Idle]
    /\ transcription_queue = <<>>
    /\ polling = (frontend = "gui")
    /\ running = TRUE
    /\ recordings = <<>>
    /\ peers = [fe \in FrontEnds |-> Outcome(<<>>, Signal("ready"))]

InitParse == StartParse(ParseInputs)

\* result = self.parser.parse(text)
Classify ==
    /\ signal = Signal("ready")
    /\ result' = parse(text)
    /\ signal' = Signal("classified")
    /\ UNCHANGED <<frontend, macros, today, buffer, ws_connected, text, before, sent,
                   client_connected, delivered, threads, peers>>

NextParse == Classify

SpecParse == InitParse /\ [][NextParse]_vars

\* phrases of transcripts that begin like the insert command
InsertPhrases ==
    << <<"i","n","s","e","r","t">> (* insert *), <<"I","n","s","e","r","t">> (* Insert *), <<"v","a","s","c","u","l","a","r">> (* vascular *), <<"p","r","o","c","e","d","u","r","e">> (* procedure *), <<"p","r","o","i","n","s","e","r","t">> (* proinsert *), <<"c","e","d","u","r","e">> (* cedure *),
       <<"t","h","e">> (* the *), <<"s","a","v","e"," ","n","o","t","e">> (* save note *), <<"s","t","a","r","t"," ","o","v","e","r">> (* start over *), <<"w","h","a","t"," ","f","i","e","l","d","s">> (* what fields *) >>

InitInsert == StartParse(Joined(InsertPhrases))

SpecInsert == InitInsert /\ [][NextParse]_vars

\* phrases of transcripts around the set/fill pattern: separators in the field's
\* place, in the value and more than once
SetPhrases ==
    << <<"s","e","t"," ","x">> (* set x *), <<"F","i","l","l"," ","t","o">> (* Fill to *), <<"s","e","t">> (* set *), <<"t","o">> (* to *), <<"i","s"," ","y">> (* is y *), <<"a","s">> (* as *), <<"t","o"," ","z">> (* to z *), <<"s","h","e","a","t","h"," ","s","i","z","e">> (* sheath size *) >>

InitSet == StartParse(Joined(SetPhrases))

SpecSet == InitSet /\ [][NextParse]_vars

\* the keywords the vessel branch of _parse_set_command looks for
PropertyKeywords == {<<"o","c","c","l","u","s","i","o","n">> (* occlusion *), <<"l","e","n","g","t","h">> (* length *), <<"t","r","e","a","t","m","e","n","t">> (* treatment *), <<"t","a","s","c">> (* tasc *), <<"c","a","l","c","i","f","i","c","a","t","i","o","n">> (* calcification *)}

\* words of field phrases: vessel names, property keywords, keywords of the
\* standard fields and words that are none of these
FieldWords ==
    << <<"p","o","p","l","i","t","e","a","l">> (* popliteal *), <<"c","o","m","m","o","n"," ","i","l","i","a","c"," ","t","a","s","c">> (* common iliac tasc *), <<"t","i","b","i","a","l"," ","p","e","r","o","n","e","a","l"," ","t","r","u","n","k">> (* tibial peroneal trunk *), <<"p","e","r","o","n","e","a","l">> (* peroneal *),
       <<"o","c","c","l","u","s","i","o","n">> (* occlusion *), <<"t","a","s","c">> (* tasc *), <<"s","h","e","a","t","h">> (* sheath *), <<"s","i","d","e">> (* side *), <<"p","a","t","i","e","n","t"," ","n","a","m","e">> (* patient name *), <<"n","o","t","e">> (* note *),
       <<"l","a","t","e","r","a","l","i","t","y">> (* laterality *), <<"a","c","c","e","s","s">> (* access *), <<"c","l","o","s","u","r","e">> (* closure *), <<"m","y","n","x">> (* mynx *) >>
ResolveValues ==
    { <<"8"," ","c","e","n","t","i","m","e","t","e","r","s">> (* 8 centimeters *), <<"B"," ","p","l","u","s">> (* B plus *), <<"P","T","A"," ","a","n","d"," ","s","t","e","n","t">> (* PTA and stent *), <<"l","e","f","t"," ","f","e","m","o","r","a","l"," ","m","a","n","u","a","l"," ","6"," ","f","r","e","n","c","h">> (* left femoral manual 6 french *) }

\* the phrases of one of the words and of two
OneOrTwo(words) ==
    {words[i] : i \in DOMAIN words}
       \cup {words[i] \o <<" ">> (*   *) \o words[j] : i, j \in DOMAIN words}

FieldPhrases == OneOrTwo(FieldWords)

\* each name of the catalog with each property keyword
CatalogPhrases ==
    {vessel_names[i] \o <<" ">> (*   *) \o k : i \in DOMAIN vessel_names, k \in PropertyKeywords}

\* a vessel name with two property keywords, in either order
PropertyPhrases ==
    {<<"p","o","p","l","i","t","e","a","l"," ">> (* popliteal  *) \o k1 \o <<" ">> (*   *) \o k2 : k1, k2 \in PropertyKeywords}

\* "set <field phrase> to <value>"
ResolveInputs ==
    { <<"s","e","t"," ">> (* set  *) \o f \o <<" ","t","o"," ">> (*  to  *) \o v :
        f \in FieldPhrases \cup CatalogPhrases \cup PropertyPhrases, v \in ResolveValues }

InitResolve == StartParse(ResolveInputs)

SpecResolve == InitResolve /\ [][NextParse]_vars

\* transcripts as the recognizer may write them: in lower case, in capitals or with
\* a capital first, and with white space around them or without
CaseInputs ==
    LET spoken == { <<"i","n","s","e","r","t"," ","p","r","o","c","e","d","u","r","e">> (* insert procedure *), <<"s","e","t"," ","p","o","p","l","i","t","e","a","l"," ","t","a","s","c"," ","t","o"," ","b"," ","p","l","u","s">> (* set popliteal tasc to b plus *),
                    <<"f","i","l","l"," ","s","i","d","e"," ","a","s"," ","l","e","f","t"," ","g","r","o","i","n">> (* fill side as left groin *), <<"s","a","v","e"," ","p","r","o","c","e","d","u","r","e">> (* save procedure *), <<"c","l","e","a","r"," ","b","u","f","f","e","r">> (* clear buffer *),
                    <<"w","h","a","t"," ","f","i","e","l","d","s">> (* what fields *), <<"t","h","a","n","k"," ","y","o","u">> (* thank you *) }
        around == { <<>>, <<" ">>, <<NL>>, <<"\t", " ">> }
    IN  { l \o c \o r :
            l \in around, r \in around,
            c \in UNION { {t, Upper(t), <<UpperChar(Head(t))>> \o Tail(t)} : t \in spoken } }

InitCase == StartParse(CaseInputs)
SpecCase == InitCase /\ [][NextParse]_vars

-----------------------------------------------------------------------------
(* The round trip: the vascular procedure macro is inserted, then the user *)
(* goes on filling placeholders that show_fields lists, one command each.  *)

Range(seq) == {seq[i] : i \in DOMAIN seq}

\* the command r addresses a placeholder that show_remaining_fields lists
AddressesListedField(fe, buf, r) ==
    LET shown == show_remaining_fields(fe, buf).sig IN
    /\ shown.msg = "remaining_fields"
    /\ IF r.kind = "set_field" THEN r.params.field \in Range(shown.listed)
       ELSE IF r.kind = "set_vessel_field"
       THEN \/ r.params.vessel \o <<"_">> \o r.params.property \in Range(shown.listed)
            \/ r.params.vessel \in Range(shown.listed)
       ELSE FALSE

\* process_command("insert procedure"), the first thing said
InsertVascular ==
    /\ signal.msg = "ready"
    /\ ProcessCommand(<<"i","n","s","e","r","t"," ","p","r","o","c","e","d","u","r","e">> (* insert procedure *))

\* process_command(t) for a set command on a listed placeholder
FillStep(t) ==
    /\ signal.msg # "ready"
    /\ AddressesListedField(frontend, buffer, Parsed[t])
    /\ ProcessCommand(t)

NextRoundTrip ==
    \/ InsertVascular
    \/ \E t \in FillTranscripts : FillStep(t)

\* the user does not stop while a listed placeholder can be filled
SpecRoundTrip ==
    /\ Init
    /\ [][NextRoundTrip]_vars
    /\ WF_vars(InsertVascular)
    /\ WF_vars(\E t \in FillTranscripts : FillStep(t))


-----------------------------------------------------------------------------
(* The threads: the hotkey listener, the main loop and, in the GUI, one    *)
(* thread per recording being transcribed. A command application is two    *)
(* steps, its beginning and its end, so that two of them can overlap if    *)
(* the program lets them.                                                  *)

\* what is said while the threads are watched
ThreadTranscripts == { <<"i","n","s","e","r","t"," ","p","r","o","c","e","d","u","r","e">> (* insert procedure *), <<"s","t","a","r","t"," ","o","v","e","r">> (* start over *) }

\* transcription_queue is not explored beyond this many waiting transcripts
MaxQueueLen == 2

\* no recording is stopped while this many stopped ones wait to be applied
MaxRecordings == 3

\* where a thread is while it applies a command to the narrative
Applying == {"process_command", "save", "clear"}

\* what input() of run_interactive gives that changes the state: a command, or
\* Ctrl+C (view, fields, help and unknown commands only print)
TerminalInputs == {"record", "stop", "save", "clear", "quit", "KeyboardInterrupt"}

\* what a thread does with the text it has transcribed: the GUI's
\* transcribe_audio_thread hands it to the main loop through transcription_queue,
\* transcribe_and_process calls process_command itself (not what the GUI does)
AfterTranscriptionCall(fe) == "call"

\* what a thread does with the text it has transcribed: the GUI's
\* transcribe_audio_thread hands it to the main loop through transcription_queue,
\* transcribe_and_process of the other two calls process_command itself
AfterTranscription(fe) == IF fe = "gui" THEN "queue" ELSE "call"

\* a process_queue that asks for its next call only at the end of its try block
\* (not what the source does)
RescheduledAfterSuccess(raised) == ~raised

\* finally: self.root.after(100, self.process_queue), whether the tick raised or not
Rescheduled(raised) == TRUE

\* a start_recording of the terminal without the test of is_recording
\* (not what the source does)
StartAgain(recording) == TRUE

\* start_recording of the terminal goes on unless it is recording already
StartsRecording(recording) == ~recording

\* the callback of the input stream appends a block of audio to recorder._frames
AudioArrives ==
    /\ recorder.stream = "started"
    /\ recorder.frames = "none"
    /\ recorder' = [recorder EXCEPT !.frames = "some"]
    /\ UNCHANGED <<frontend, macros, today, buffer, ws_connected, text, result, before,
                   signal, sent, client_connected, delivered, is_recording, pc,
                   transcription_queue, polling, running, recordings, peers>>

\* the stopping half of toggle_recording / stop_recording, in thread th: the
\* recording is stopped and, if there is a file, its transcription begins in
\* thread `in` (model.transcribe will make transcript t of it)
StopAndTranscribe(th, in) ==
    LET stopped == stop_recording(recorder) IN
    /\ Len(recordings) < MaxRecordings
    /\ is_recording' = FALSE
    /\ recorder' = stopped.rec
    /\ IF stopped.audio_file
       THEN \E t \in ThreadTranscripts :
              /\ pc' = [pc EXCEPT ![th] = Idle, ![in] = Where("transcribing", t)]
              /\ recordings' = Append(recordings, t)
       ELSE /\ pc' = [pc EXCEPT ![th] = Idle]
            /\ UNCHANGED recordings

\* toggle_recording, called by the listener thread for the hotkey
KeyPress ==
    /\ frontend \in {"gui", "headless"}
    /\ pc[Listener].at = "idle"
    /\ IF is_recording
       THEN IF frontend = "gui"
            THEN \E w \in Workers : pc[w].at = "idle" /\ StopAndTranscribe(Listener, w)
            ELSE StopAndTranscribe(Listener, Listener)
       ELSE /\ is_recording' = TRUE
            /\ recorder' = start_recording
            /\ UNCHANGED <<pc, recordings>>
    /\ UNCHANGED <<frontend, macros, today, buffer, ws_connected, text, result, before,
                   signal, sent, client_connected, delivered, transcription_queue, polling,
                   running, peers>>

\* input(">>> ") of run_interactive's loop returns a command or raises
\* KeyboardInterrupt
TerminalCommand ==
    /\ frontend = "ssh"
    /\ running
    /\ pc[Main].at = "idle"
    /\ \E cmd \in TerminalInputs : pc' = [pc EXCEPT ![Main] = Where(cmd, <<>>)]
    /\ UNCHANGED <<frontend, macros, today, buffer, ws_connected, text, result, before,
                   signal, sent, client_connected, delivered, is_recording, recorder,
                   transcription_queue, polling, running, recordings, peers>>

\* the branch of run_interactive's loop for record, stop, quit or Ctrl+C
RunTerminal ==
    /\ frontend = "ssh"
    /\ pc[Main].at \in {"record", "stop", "quit", "KeyboardInterrupt"}
    /\ IF pc[Main].at = "record"
       THEN /\ IF StartsRecording(is_recording)
               THEN is_recording' = TRUE /\ recorder' = start_recording
               ELSE UNCHANGED <<is_recording, recorder>>
            /\ pc' = [pc EXCEPT ![Main] = Idle]
            /\ UNCHANGED <<running, recordings>>
       ELSE IF pc[Main].at = "stop" \/ (pc[Main].at = "KeyboardInterrupt" /\ is_recording)
       THEN /\ IF is_recording
               THEN StopAndTranscribe(Main, Main)
               ELSE /\ pc' = [pc EXCEPT ![Main] = Idle]
                    /\ UNCHANGED <<is_recording, recorder, recordings>>
            /\ UNCHANGED running
       ELSE /\ running' = FALSE
            /\ pc' = [pc EXCEPT ![Main] = Idle]
            /\ UNCHANGED <<is_recording, recorder, recordings>>
    /\ UNCHANGED <<frontend, macros, today, buffer, ws_connected, text, result, before,
                   signal, sent, client_connected, delivered, transcription_queue, polling,
                   peers>>

\* Ctrl+C while transcribe_and_process is at work in the terminal: the
\* KeyboardInterrupt is no Exception, it leaves stop_recording and ends the loop
InterruptTranscription ==
    /\ frontend = "ssh"
    /\ pc[Main].at = "transcribing"
    /\ running' = FALSE
    /\ pc' = [pc EXCEPT ![Main] = Idle]
    /\ recordings' = WithoutFirst(recordings, pc[Main].text)
    /\ UNCHANGED <<frontend, macros, today, buffer, ws_connected, text, result, before,
                   signal, sent, client_connected, delivered, is_recording, recorder,
                   transcription_queue, polling, peers>>

\* model.transcribe has returned in thread th
TranscribeDone(th) ==
    /\ pc[th].at = "transcribing"
    /\ IF AfterTranscription(frontend) = "queue"
       THEN /\ Len(transcription_queue) < MaxQueueLen
            /\ transcription_queue' = Append(transcription_queue, pc[th].text)
            /\ pc' = [pc EXCEPT ![th] = Idle]
       ELSE /\ pc' = [pc EXCEPT ![th] = Where("process_command", pc[th].text)]
            /\ UNCHANGED transcription_queue
    /\ UNCHANGED <<frontend, macros, today, buffer, ws_connected, text, result, before,
                   signal, sent, client_connected, delivered, is_recording, recorder,
                   polling, running, recordings, peers>>

\* a tick of process_queue, a callback of the main loop, that finds a transcript
\* waiting (a tick that finds none asks for the next tick and changes nothing)
ProcessQueue ==
    /\ frontend = "gui"
    /\ polling
    /\ pc[Main].at = "idle"
    /\ transcription_queue # <<>>
    /\ pc' = [pc EXCEPT ![Main] = Where("process_command", Head(transcription_queue))]
    /\ transcription_queue' = Tail(transcription_queue)
    /\ polling' = FALSE
    /\ UNCHANGED <<frontend, macros, today, buffer, ws_connected, text, result, before,
                   signal, sent, client_connected, delivered, is_recording, recorder,
                   running, recordings, peers>>

\* save_procedure_manual, the callback of the save button, is entered
SaveButton ==
    /\ frontend = "gui"
    /\ pc[Main].at = "idle"
    /\ pc' = [pc EXCEPT ![Main] = Where("save", <<>>)]
    /\ UNCHANGED <<frontend, macros, today, buffer, ws_connected, text, result, before,
                   signal, sent, client_connected, delivered, is_recording, recorder,
                   transcription_queue, polling, running, recordings, peers>>

\* save_procedure_manual / the 'save' branch of run_interactive
ManualSave(accepts) ==
    /\ buffer' = buffer
    /\ before' = buffer
    /\ text' = <<>>
    /\ result' = None
    /\ signal' = Signal(IF ws_connected THEN "procedure_saved" ELSE "cannot_save")
    /\ sent' = IF ws_connected THEN <<SaveMessage(frontend, buffer)>> ELSE <<>>
    /\ delivered' = Transmit(sent', client_connected, accepts)
    /\ UNCHANGED <<frontend, macros, today, ws_connected, client_connected>>

\* the 'clear' branch of run_interactive
ManualClear ==
    /\ buffer' = <<>>
    /\ before' = buffer
    /\ text' = <<>>
    /\ result' = None
    /\ signal' = Signal("buffer_cleared")
    /\ sent' = <<>>
    /\ delivered' = <<>>
    /\ UNCHANGED <<frontend, macros, today, ws_connected, client_connected>>

\* thread th has applied a command and leaves it: its transcript has been applied,
\* and the tick of process_queue it was in, if any, asks for the next one
Leave(th, raised) ==
    /\ pc' = [pc EXCEPT ![th] = Idle]
    /\ recordings' = IF pc[th].at \in {"transcribing", "process_command"}
                     THEN WithoutFirst(recordings, pc[th].text) ELSE recordings
    /\ polling' = IF frontend = "gui" /\ th = Main /\ pc[th].at = "process_command"
                  THEN Rescheduled(raised) ELSE polling

\* thread th comes to the end of the command it is applying
Finish(th) ==
    /\ pc[th].at \in Applying
    /\ IF pc[th].at = "process_command" THEN Apply(pc[th].text, Accepted)
       ELSE IF pc[th].at = "save" THEN ManualSave(Accepted)
       ELSE ManualClear
    /\ Leave(th, FALSE)
    /\ UNCHANGED <<is_recording, recorder, transcription_queue, running, peers>>

\* model.transcribe, or the sending and processing of the transcript, raises in
\* thread th: the GUI's thread ends or its tick is left through finally, the other
\* two print the error
Raise(th) ==
    /\ pc[th].at \in {"transcribing", "process_command"}
    /\ Leave(th, TRUE)
    /\ UNCHANGED <<frontend, macros, today, buffer, ws_connected, text, result, before,
                   signal, sent, client_connected, delivered, is_recording, recorder,
                   transcription_queue, running, peers>>

NextThreads ==
    \/ AudioArrives
    \/ KeyPress
    \/ TerminalCommand
    \/ RunTerminal
    \/ InterruptTranscription
    \/ \E th \in Threads : TranscribeDone(th)
    \/ ProcessQueue
    \/ SaveButton
    \/ \E th \in Threads : Finish(th)
    \/ \E th \in Threads : Raise(th)

SpecThreads == Init /\ [][NextThreads]_vars

\* the GUI on its own, started without a macros file and without a backend
InitQueue == Init /\ frontend = "gui" /\ macros = NoMacros /\ ~ws_connected

NextQueue ==
    \/ AudioArrives
    \/ KeyPress
    \/ \E th \in Threads : TranscribeDone(th)
    \/ ProcessQueue
    \/ SaveButton
    \/ \E th \in Threads : Finish(th)
    \/ \E th \in Threads : Raise(th)

\* the GUI's main loop serves its timer: a tick of process_queue that is due is
\* run though buttons are pressed in between, and a callback that has begun ends
SpecQueue ==
    /\ InitQueue
    /\ [][NextQueue]_vars
    /\ SF_vars(ProcessQueue)
    /\ WF_vars(Finish(Main) \/ Raise(Main))

-----------------------------------------------------------------------------
(* The transport: the server may close the connection, and a send on the   *)
(* socket may raise.                                                       *)

\* what is said while the socket is watched
TransportTranscripts ==
    { <<"i","n","s","e","r","t"," ","p","r","o","c","e","d","u","r","e">> (* insert procedure *), <<"I","n","s","e","r","t"," ","c","o","i","n">> (* Insert coin *), <<"s","a","v","e"," ","n","o","t","e"," ","a","n","d"," ","c","l","e","a","r"," ","b","u","f","f","e","r">> (* save note and clear buffer *), <<"s","t","a","r","t"," ","o","v","e","r">> (* start over *) }

\* process_command(t), each websocket.send of it returning or raising
ProcessCommandOver(t) ==
    /\ \E accepts \in SendOutcomes : Apply(t, accepts)
    /\ UNCHANGED <<threads, peers>>

\* the save button / 'save' typed at the terminal
SaveNow ==
    /\ frontend \in {"gui", "ssh"}
    /\ \E accepts \in SendOutcomes : ManualSave(accepts)
    /\ UNCHANGED <<threads, peers>>

\* listen(): the server closed the connection
ConnectionClosed ==
    /\ client_connected
    /\ client_connected' = FALSE
    /\ UNCHANGED <<frontend, macros, today, buffer, ws_connected, text, result, before,
                   signal, sent, delivered, threads, peers>>

NextTransport ==
    \/ \E t \in TransportTranscripts : ProcessCommandOver(t)
    \/ SaveNow
    \/ ConnectionClosed

SpecTransport == Init /\ [][NextTransport]_vars

-----------------------------------------------------------------------------
(* The three front ends side by side: each starts with the same macros and *)
(* is handed the same transcripts, one process_command each per transcript. *)

\* process_command(t) in the GUI, at the terminal and in the background service
FeedAll(t) ==
    LET out == [fe \in FrontEnds |->
                   Dispatch(fe, peers[fe].buf, t, Parsed[t], macros, today, ws_connected)]
    IN  /\ \A fe \in FrontEnds : Len(out[fe].buf) <= MaxBufferLen
        /\ peers' = out
        /\ text' = t
        /\ result' = Parsed[t]
        /\ UNCHANGED <<frontend, macros, today, buffer, ws_connected, before, signal, sent,
                       client_connected, delivered, threads>>

NextPeers == \E t \in Transcripts : FeedAll(t)

SpecPeers == Init /\ [][NextPeers]_vars

-----------------------------------------------------------------------------
(* The normalizers on their own: a value is drawn as it may be handed to   *)
(* them, in any case, and one of them is applied to it.                    *)

\* words the values of SpecNormalize are put together from
ValueWords ==
    << <<"5">> (* 5 *), <<"2",".","5"," ","c","m">> (* 2.5 cm *), <<"2","0"," ","m","m">> (* 20 mm *), <<"3"," ","m","i","l","l","i","m","e","t","e","r","s">> (* 3 millimeters *), <<"4"," ","c","e","n","t","i","m","e","t","e","r","s">> (* 4 centimeters *), <<"l","o","n","g">> (* long *),
       <<"P","T","A">> (* PTA *), <<"B","a","l","l","o","o","n">> (* Balloon *), <<"s","t","e","n","t">> (* stent *), <<"a","n","g","i","o","p","l","a","s","t","y">> (* angioplasty *), <<"a","t","h","e","r","e","c","t","o","m","y">> (* atherectomy *), <<"t","p","a">> (* tpa *),
       <<"t","h","r","o","m","b","o","l","y","s","i","s">> (* thrombolysis *), <<"c","l","a","s","s"," ","C">> (* class C *), <<"L","e","f","t">> (* Left *), <<"r","i","g","h","t">> (* right *), <<"b","o","t","h">> (* both *), <<"f","e","m","o","r","a","l">> (* femoral *),
       <<"r","a","d","i","a","l">> (* radial *), <<"p","o","p">> (* pop *), <<"m","i","l","d">> (* mild *), <<"h","e","a","v","y">> (* heavy *), <<"n","o","n","e">> (* none *), <<"m","y","n","x">> (* mynx *), <<"p","r","e","s","s","u","r","e">> (* pressure *),
       <<"6"," ","F","r","e","n","c","h">> (* 6 French *), <<"x">> (* x *) >>

\* the _normalize_* methods of VascularCommandParser
Normalizers ==
    {"length", "treatment", "tasc", "calcification", "side", "access", "sheath", "closure"}

\* self._normalize_<which>(value)
normalize(which, value) ==
    CASE which = "length" -> normalize_length(value)
      [] which = "treatment" -> normalize_treatment(value)
      [] which = "tasc" -> normalize_tasc(value)
      [] which = "calcification" -> normalize_calcification(value)
      [] which = "side" -> normalize_side(value)
      [] which = "access" -> normalize_access(value)
      [] which = "sheath" -> normalize_sheath(value)
      [] which = "closure" -> normalize_closure(value)

InitNormalize == StartParse(OneOrTwo(ValueWords))

\* one of the normalizers is called with the value
Normalize(which) ==
    /\ signal = Signal("ready")
    /\ result' = Command(which, [value |-> normalize(which, text)])
    /\ signal' = Signal("normalized")
    /\ UNCHANGED <<frontend, macros, today, buffer, ws_connected, text, before, sent,
                   client_connected, delivered, threads, peers>>

NextNormalize == \E which \in Normalizers : Normalize(which)

SpecNormalize == InitNormalize /\ [][NextNormalize]_vars


-----------------------------------------------------------------------------
(* Listing the placeholders of a template that has many of them.           *)

InitFields == Start(FieldsMacroFiles)

NextFields == \E t \in FieldsTranscripts : ProcessCommand(t)

SpecFields == InitFields /\ [][NextFields]_vars

-----------------------------------------------------------------------------
(* What the claims are stated with: the rules of the classifier and the    *)
(* substitution of a placeholder, said without the parser's and the        *)
(* handlers' own code.                                                     *)

AllSpace(s, i, j) == \A q \in i..j : IsSpace(s[q])
NoLineFeed(s, i, j) == \A q \in i..j : s[q] # NL

\* rule 1: the cleaned text starts with "insert " and what follows holds a macro word
InsertRuleApplies(c) ==
    /\ Len(c) >= 7
    /\ SubSeq(c, 1, 7) = <<"i","n","s","e","r","t"," ">> (* insert  *)
    /\ LET rest == SubSeq(c, 8, Len(c)) IN
       \/ \E i \in 1..Len(rest) : MatchAt(rest, <<"v","a","s","c","u","l","a","r">> (* vascular *), i)
       \/ \E i \in 1..Len(rest) : MatchAt(rest, <<"p","r","o","c","e","d","u","r","e">> (* procedure *), i)

\* rule 2: c can be cut as (set|fill) blank+ field blank+ (to|is|as) blank+ value,
\* field and value not empty and on one line
SetRuleApplies(c) ==
    \E kw \in {3, 4} :
       /\ Len(c) >= kw
       /\ SubSeq(c, 1, kw) \in {<<"s","e","t">> (* set *), <<"f","i","l","l">> (* fill *)}
       /\ \E a \in (kw + 1)..Len(c), cc \in (kw + 3)..Len(c) :
             /\ AllSpace(c, kw + 1, a)
             /\ cc + 4 <= Len(c)
             /\ IsSpace(c[cc]) /\ IsSpace(c[cc + 3])
             /\ SubSeq(c, cc + 1, cc + 2) \in {<<"t","o">> (* to *), <<"i","s">> (* is *), <<"a","s">> (* as *)}
             /\ \E e \in (a + 1)..(cc - 1) :
                   NoLineFeed(c, a + 1, e) /\ AllSpace(c, e + 1, cc)
             /\ \E d \in (cc + 3)..(Len(c) - 1) :
                   AllSpace(c, cc + 3, d) /\ c[d + 1] # NL

Occurs(s, p) == \E i \in 1..Len(s) : MatchAt(s, p, i)

SaveRuleApplies(c) ==
    Occurs(c, <<"s","a","v","e"," ","p","r","o","c","e","d","u","r","e">> (* save procedure *)) \/ Occurs(c, <<"s","a","v","e"," ","n","o","t","e">> (* save note *)) \/ Occurs(c, <<"c","o","m","p","l","e","t","e"," ","p","r","o","c","e","d","u","r","e">> (* complete procedure *))
ClearRuleApplies(c) == Occurs(c, <<"c","l","e","a","r"," ","b","u","f","f","e","r">> (* clear buffer *)) \/ Occurs(c, <<"s","t","a","r","t"," ","o","v","e","r">> (* start over *))
ShowRuleApplies(c) == Occurs(c, <<"s","h","o","w"," ","f","i","e","l","d","s">> (* show fields *)) \/ Occurs(c, <<"w","h","a","t"," ","f","i","e","l","d","s">> (* what fields *))

\* the command kind the first applicable rule gives
FirstRule(c) ==
    IF InsertRuleApplies(c) THEN {"insert_macro"}
    ELSE IF SetRuleApplies(c) THEN {"set_field", "set_vessel_field"}
    ELSE IF SaveRuleApplies(c) THEN {"save_procedure"}
    ELSE IF ClearRuleApplies(c) THEN {"clear_buffer"}
    ELSE IF ShowRuleApplies(c) THEN {"show_fields"}
    ELSE {"None"}

Cleaned(t) == Strip(Lower(t))

-----------------------------------------------------------------------------
(* Claims about the handlers, read off the last process_command:           *)
(* `before` is the narrative it started from, `buffer` the one it left.    *)

\* new is old with the leftmost occurrence of p, and nothing else, replaced by r
IsLeftmostReplacement(old, new, p, r) ==
    \E i \in 1..Len(old) :
       /\ MatchAt(old, p, i)
       /\ \A j \in 1..(i - 1) : ~MatchAt(old, p, j)
       /\ new = SubSeq(old, 1, i - 1) \o r \o SubSeq(old, i + Len(p), Len(old))

CountOccurrences(s, p) == Cardinality({i \in 1..Len(s) : MatchAt(s, p, i)})

\* the placeholders show_fields would list for the narrative s
FieldCount(s) == Len(FindAllFields(s, 1))

SetFieldPlaceholder == <<"{">> \o result.params.field \o <<"}">>
VesselPropertyPlaceholder ==
    <<"{">> \o result.params.vessel \o <<"_">> \o result.params.property \o <<"}">>
VesselPlaceholder == <<"{">> \o result.params.vessel \o <<"}">>

\* C2: a successful set_field replaces exactly one occurrence of {field}, the
\* leftmost one, and leaves every other character of the buffer unchanged.
C2_SetFieldReplacesLeftmostOnly ==
    (result.kind = "set_field" /\ signal.msg = "field_set") =>
        IsLeftmostReplacement(before, buffer, SetFieldPlaceholder, result.params.value)

\* C3: insert_macro of a macro that exists replaces the whole buffer by the macro's
\* template with {date} substituted by the date: nothing of the old buffer is kept,
\* nothing is appended, and no {date} remains.
C3_InsertMacroOverwrites ==
    [][(result'.kind = "insert_macro" /\ signal'.msg = "template_loaded") =>
          LET template == macros[result'.params.macro_name] IN
          /\ ~Occurs(buffer', <<"{","d","a","t","e","}">> (* {date} *))
          /\ ReplaceAll(buffer', today, <<"{","d","a","t","e","}">> (* {date} *)) = template
          /\ CountOccurrences(buffer', today) = CountOccurrences(template, <<"{","d","a","t","e","}">> (* {date} *))
      ]_vars

\* a template holding {date} was loaded over a narrative that was not empty
C3_Witness ==
    /\ result.kind = "insert_macro"
    /\ signal.msg = "template_loaded"
    /\ before # <<>>
    /\ buffer # before
    /\ Occurs(macros[result.params.macro_name], <<"{","d","a","t","e","}">> (* {date} *))
    /\ CountOccurrences(buffer, Dates[2]) = 2

\* the text the handler of the running front end searches: the GUI handler reads the
\* widget, which hands the narrative back with a line feed after it
SearchedText == IF frontend = "gui" THEN before \o <<NL>> ELSE before

\* C4: set_vessel_field tries {vessel_property} first and, when present, replaces
\* its first occurrence with the value; only when it is absent does it try {vessel},
\* replacing its first occurrence with "Occlusion: <value>" when the property is
\* occlusion_length and with "Treatment: <value>" for every other property.
C4_VesselFieldFallback ==
    result.kind = "set_vessel_field" =>
        IF Occurs(SearchedText, VesselPropertyPlaceholder)
        THEN IsLeftmostReplacement(SearchedText, buffer, VesselPropertyPlaceholder,
                                   result.params.value)
        ELSE IF Occurs(SearchedText, VesselPlaceholder)
        THEN IsLeftmostReplacement(SearchedText, buffer, VesselPlaceholder,
                 (IF result.params.property = <<"o","c","c","l","u","s","i","o","n","_","l","e","n","g","t","h">> (* occlusion_length *)
                  THEN <<"O","c","c","l","u","s","i","o","n",":"," ">> (* Occlusion:  *) ELSE <<"T","r","e","a","t","m","e","n","t",":"," ">> (* Treatment:  *)) \o result.params.value)
        ELSE buffer = before

\* a tasc value went into the coarse {vessel} placeholder as "Treatment: B"
C4_Witness ==
    /\ result.kind = "set_vessel_field"
    /\ result.params.property = <<"t","a","s","c">> (* tasc *)
    /\ ~Occurs(before, VesselPropertyPlaceholder)
    /\ Occurs(before, VesselPlaceholder)
    /\ Occurs(buffer, <<"T","r","e","a","t","m","e","n","t",":"," ","B">> (* Treatment: B *))
    /\ ~Occurs(before, <<"T","r","e","a","t","m","e","n","t",":"," ","B">> (* Treatment: B *))

\* C5: set_field and set_vessel_field never increase the number of placeholder
\* occurrences in the buffer, and each successful call reduces the number of
\* occurrences of the targeted placeholder by exactly one.
C5_PlaceholdersNeverIncrease ==
    result.kind \in {"set_field", "set_vessel_field"} =>
        /\ FieldCount(buffer) <= FieldCount(before)
        /\ signal.msg \in {"field_set", "vessel_updated"} =>
              LET target == IF result.kind = "set_field" THEN SetFieldPlaceholder
                            ELSE IF signal.msg = "field_set" THEN VesselPropertyPlaceholder
                            ELSE VesselPlaceholder
              IN  CountOccurrences(buffer, target) + 1 = CountOccurrences(before, target)

\* C6: after insert_macro("vascular_procedure"), repeatedly applying set_field or
\* set_vessel_field for the placeholders show_fields reports eventually reaches a
\* buffer for which show_fields reports no placeholder.
C6_RoundTripFills ==
    (result.kind = "insert_macro" /\ signal.msg = "template_loaded")
        ~> (FindAllFields(CurrentText(frontend, buffer), 1) = <<>>)

C9_VesselFieldAbsentReported ==
    (/\ result.kind = "set_vessel_field"
     /\ ~Occurs(before, VesselPropertyPlaceholder)
     /\ ~Occurs(before, VesselPlaceholder)) =>
        /\ buffer = before
        /\ signal.msg = "field_not_found"

-----------------------------------------------------------------------------
(* Claims about the threads.                                               *)

\* the threads that are in the middle of a command application
InApplication == {th \in Threads : pc[th].at \in Applying}

\* C11: in every front end all mutations of the narrative are serialized through
\* one owner: no two command applications (process_command, manual clear, manual
\* save) are ever in progress at once, also while recordings are transcribed on
\* background threads and the user keeps pressing the key or typing commands.
C11_MutationsSerialized == Cardinality(InApplication) <= 1

\* the GUI's main loop is applying a command while a second transcript waits in the
\* queue, a third recording is being transcribed and a fourth is being made
C11_Witness ==
    /\ frontend = "gui"
    /\ pc[Main].at = "process_command"
    /\ transcription_queue # <<>>
    /\ \E w \in Workers : pc[w].at = "transcribing"
    /\ is_recording
    /\ buffer # <<>>

-----------------------------------------------------------------------------
(* Claims about saving.                                                    *)

\* the last command was a save: the save command was spoken, or asked for by hand
SaveSpoken == result # None /\ result.kind = "save_procedure"
SaveByHand == result = None /\ signal.msg \in {"procedure_saved", "cannot_save"}

\* C12: the outcome reported for save is determined by the transport: when the
\* WebSocket send fails or the client is no longer connected, the front end does
\* not report the procedure as saved.
C12_SavedOnlyWhenDelivered ==
    ((SaveSpoken \/ SaveByHand) /\ signal.msg = "procedure_saved") =>
        SaveMessage(frontend, before) \in Range(delivered)

\* C13: save never mutates the buffer: in every state and whatever the transport
\* does, the buffer after a save command equals the buffer before it, and the
\* exported pair is (current buffer text, status "completed").
C13_SaveLeavesBuffer ==
    (SaveSpoken \/ SaveByHand) =>
        /\ buffer = before
        /\ sent # <<>> =>
              sent[1] = [command |-> "save_procedure",
                         params |-> [narrative |-> before, status |-> "completed"]]

-----------------------------------------------------------------------------
(* Claims about the front ends side by side.                               *)

\* C14: the three front ends differ only in transport, not in logic: started with
\* the same macros and fed the same sequence of transcripts, the GUI narrative, the
\* terminal buffer and the background-service buffer are equal after every
\* transcript, and the same success / not-found signals are produced.
C14_FrontEndsAgree ==
    \A fe1, fe2 \in FrontEnds :
        /\ peers[fe1].buf = peers[fe2].buf
        /\ peers[fe1].sig = peers[fe2].sig

-----------------------------------------------------------------------------
(* Claims about inserting again and about listing the placeholders.        *)

\* the narrative the first insert_macro of a session gives on the day `date`
FirstInsertion(params, date) == handle_insert_macro(frontend, <<>>, params, macros, date).buf

\* C15: insert_macro is idempotent per macro name on a fixed date: inserting the
\* same macro twice in a row, or again after any sequence of set / append / clear
\* commands, yields a buffer identical to the one the first insertion produced.
C15_InsertIdempotent ==
    [][(today' = today /\ result'.kind = "insert_macro" /\ signal'.msg = "template_loaded") =>
          /\ buffer' = FirstInsertion(result'.params, today)
          /\ handle_insert_macro(frontend, buffer', result'.params, macros, today).buf = buffer'
          /\ (result.kind = "insert_macro" /\ before' = FirstInsertion(result.params, today))
                => buffer' = before'
      ]_vars

\* the macro was inserted again over a narrative in which a placeholder had been
\* filled and to which narration had been appended
C15_Witness ==
    /\ result.kind = "insert_macro"
    /\ signal.msg = "template_loaded"
    /\ Occurs(before, <<"5","f","r">> (* 5fr *))
    /\ Occurs(before, <<"I","n","s","e","r","t"," ","c","o","i","n">> (* Insert coin *))
    /\ ~Occurs(buffer, <<"5","f","r">> (* 5fr *))
    /\ buffer = FirstInsertion(result.params, today)

\* the closing braces of s, and for each the leftmost opening brace after the
\* closing brace before it (0 when there is none)
ClosingBraces(s) == {j \in 1..Len(s) : s[j] = "}"}
OpeningFor(s, j) ==
    LET opens == {i \in 1..(j - 1) : s[i] = "{" /\ \A q \in i..(j - 1) : s[q] # "}"}
    IN  IF opens = {} THEN 0 ELSE CHOOSE i \in opens : \A q \in opens : i <= q

\* every {name} of s, name not empty and without "}", none inside another, from
\* left to right and as often as it occurs
NamesInBraces(s) ==
    LET ends == {j \in ClosingBraces(s) : OpeningFor(s, j) # 0 /\ OpeningFor(s, j) < j - 1}
        nth(k) == CHOOSE j \in ends : Cardinality({p \in ends : p <= j}) = k
    IN  [k \in 1..Cardinality(ends) |-> SubSeq(s, OpeningFor(s, nth(k)) + 1, nth(k) - 1)]

\* what the last command reported as the remaining fields
ReportedFields == IF signal.msg = "remaining_fields" THEN signal.listed ELSE <<>>

ShownFields == IF frontend = "gui" THEN ShownFieldsGui ELSE ShownFieldsTerminal

-----------------------------------------------------------------------------
(* Claims about the classifier's rules, one by one.                        *)

\* the kind a later rule gives: save, clear, show, else None
LaterRule(c) ==
    IF SaveRuleApplies(c) THEN "save_procedure"
    ELSE IF ClearRuleApplies(c) THEN "clear_buffer"
    ELSE IF ShowRuleApplies(c) THEN "show_fields"
    ELSE "None"

\* C17: if the lower-cased, trimmed transcript starts with "insert " and the
\* remainder contains "vascular" or "procedure", classify returns InsertMacro with
\* macro_name "vascular_procedure" (never another name); if it starts with
\* "insert " but the remainder contains neither word, the later rules (save, clear,
\* show, else None) are still evaluated.
C17_InsertRule ==
    (signal.msg = "classified" /\ StartsWith(Cleaned(text), <<"i","n","s","e","r","t"," ">> (* insert  *))) =>
        LET c == Cleaned(text)
            remainder == SubSeq(c, 8, Len(c))
        IN  IF Occurs(remainder, <<"v","a","s","c","u","l","a","r">> (* vascular *)) \/ Occurs(remainder, <<"p","r","o","c","e","d","u","r","e">> (* procedure *))
            THEN result = Command("insert_macro", [macro_name |-> <<"v","a","s","c","u","l","a","r","_","p","r","o","c","e","d","u","r","e">> (* vascular_procedure *)])
            ELSE result.kind = LaterRule(c)

Separators == {<<"t","o">> (* to *), <<"i","s">> (* is *), <<"a","s">> (* as *)}

\* the length of the keyword c begins with, 0 when it is neither set nor fill
KeywordLen(c) ==
    IF StartsWith(c, <<"s","e","t">> (* set *)) THEN 3 ELSE IF StartsWith(c, <<"f","i","l","l">> (* fill *)) THEN 4 ELSE 0

\* c reads: keyword, blanks, a field c[fs..fe] on one line, blanks, a separator,
\* blanks, and from vs on the value, which begins with a character that is no blank
IsCut(c, fs, fe, vs) ==
    /\ KeywordLen(c) > 0
    /\ KeywordLen(c) + 1 < fs /\ fs <= fe
    /\ AllSpace(c, KeywordLen(c) + 1, fs - 1) /\ ~IsSpace(c[fs])
    /\ NoLineFeed(c, fs, fe)
    /\ ~IsSpace(c[vs]) /\ NoLineFeed(c, vs, Len(c))
    /\ \E ss \in (fe + 2)..(vs - 3) :
          /\ AllSpace(c, fe + 1, ss - 1)
          /\ SubSeq(c, ss, ss + 1) \in Separators
          /\ AllSpace(c, ss + 2, vs - 1)

\* every way to cut c like that, as <<fs, fe, vs>>
Cuts(c) ==
    LET kw == KeywordLen(c)
        starts == {fs \in (kw + 2)..Len(c) : kw > 0 /\ AllSpace(c, kw + 1, fs - 1) /\ ~IsSpace(c[fs])}
        ends == {fe \in 1..(Len(c) - 1) : IsSpace(c[fe + 1])}
        values == {vs \in 2..Len(c) : IsSpace(c[vs - 1])}
    IN  {cut \in starts \X ends \X values : IsCut(c, cut[1], cut[2], cut[3])}

\* C18: in the set/fill pattern the field phrase is the shortest possible and the
\* value phrase the longest: for a transcript "set F1 to V1 to V2" (any of the
\* separators to / is / as, several times) the field phrase ends before the first
\* whitespace-delimited separator and the value is everything after that separator
\* up to the end of the text.
C18_ShortestFieldLongestValue ==
    signal.msg = "classified" =>
        LET c == Cleaned(text)
            cuts == Cuts(c)
            cut == CHOOSE x \in cuts : \A y \in cuts : x[2] <= y[2]
            matched == SetMatch(c)
        IN  cuts # {} =>
            /\ matched.ok
            /\ matched.field = SubSeq(c, cut[1], cut[2])
            /\ matched.value = SubSeq(c, cut[3], Len(c))
            /\ \A y \in cuts : Len(matched.field) <= y[2] - y[1] + 1
            /\ \A y \in cuts : Len(matched.value) >= Len(c) - y[3] + 1
            /\ result = parse_set_command(SubSeq(c, cut[1], cut[2]), SubSeq(c, cut[3], Len(c)))

\* "set x to z is y" was read as field x and value "z is y"
C18_Witness ==
    /\ signal.msg = "classified"
    /\ Cleaned(text) = <<"s","e","t"," ","x"," ","t","o"," ","z"," ","i","s"," ","y">> (* set x to z is y *)
    /\ result = Command("set_field", [field |-> <<"x">> (* x *), value |-> <<"z"," ","i","s"," ","y">> (* z is y *)])

-----------------------------------------------------------------------------
(* Claims about _parse_set_command, applied to the field phrase and the    *)
(* value that the set/fill pattern cuts out of the transcript.             *)

\* the field phrase and the value of a set/fill transcript
FirstCut(c) == LET cuts == Cuts(c) IN CHOOSE x \in cuts : \A y \in cuts : x[2] <= y[2]
FieldPhrase(c) == LET cut == FirstCut(c) IN SubSeq(c, cut[1], cut[2])
ValuePhrase(c) == LET cut == FirstCut(c) IN SubSeq(c, cut[3], Len(c))

StandardKeywords == {<<"s","i","d","e">> (* side *), <<"l","a","t","e","r","a","l","i","t","y">> (* laterality *), <<"a","c","c","e","s","s">> (* access *), <<"s","h","e","a","t","h">> (* sheath *), <<"c","l","o","s","u","r","e">> (* closure *), <<"m","y","n","x">> (* mynx *)}

\* the catalog names that are substrings of the phrase, by their place in the catalog
VesselsIn(phrase) == {k \in DOMAIN vessel_names : Occurs(phrase, vessel_names[k])}

\* s with every space turned into an underscore
Underscored(s) == [q \in DOMAIN s |-> IF s[q] = " " THEN "_" ELSE s[q]]

\* C19: resolve (_parse_set_command) is total: for every field phrase and value it
\* returns either SetField or SetVesselField, never None and never an error; a
\* phrase matching no vessel and no keyword yields SetField whose field is the
\* phrase with spaces replaced by underscores and whose value is unchanged.
C19_ResolveTotal ==
    signal.msg = "classified" =>
        LET c == Cleaned(text) IN
        Cuts(c) # {} =>
            LET phrase == FieldPhrase(c)
                value == ValuePhrase(c)
            IN  /\ result = parse_set_command(phrase, value)
                /\ result.kind \in {"set_field", "set_vessel_field"}
                /\ result.kind = "set_field" => DOMAIN result.params = {"field", "value"}
                /\ result.kind = "set_vessel_field" =>
                      DOMAIN result.params = {"vessel", "property", "value"}
                /\ (/\ VesselsIn(phrase) = {}
                    /\ \A k \in PropertyKeywords \cup StandardKeywords : ~Occurs(phrase, k))
                   => result = Command("set_field", [field |-> Underscored(phrase),
                                                     value |-> value])

\* a phrase of two words that names no vessel and holds no keyword was resolved
C19_Witness ==
    /\ signal.msg = "classified"
    /\ result = Command("set_field", [field |-> <<"p","a","t","i","e","n","t","_","n","a","m","e","_","p","a","t","i","e","n","t","_","n","a","m","e">> (* patient_name_patient_name *),
                                      value |-> <<"8"," ","c","e","n","t","i","m","e","t","e","r","s">> (* 8 centimeters *)])

\* C20: when a field phrase contains a property keyword and one or more catalog
\* vessel names as substrings, the resolved vessel is the earliest such name in
\* catalog order (with spaces replaced by underscores), independent of where the
\* names occur in the phrase.
C20_EarliestVesselInCatalog ==
    signal.msg = "classified" =>
        LET c == Cleaned(text) IN
        Cuts(c) # {} =>
            LET phrase == FieldPhrase(c)
                found == VesselsIn(phrase)
            IN  (found # {} /\ \E k \in PropertyKeywords : Occurs(phrase, k)) =>
                    /\ result.kind = "set_vessel_field"
                    /\ \E k \in found :
                          /\ \A j \in found : k <= j
                          /\ result.params.vessel = Underscored(vessel_names[k])

\* the phrase names popliteal before common iliac, and common iliac was resolved
C20_Witness ==
    /\ signal.msg = "classified"
    /\ Cleaned(text) = <<"s","e","t"," ","p","o","p","l","i","t","e","a","l"," ","c","o","m","m","o","n"," ","i","l","i","a","c"," ","t","a","s","c"," ","t","o"," ","b"," ","p","l","u","s">> (* set popliteal common iliac tasc to b plus *)
    /\ result.kind = "set_vessel_field"
    /\ result.params.vessel = <<"c","o","m","m","o","n","_","i","l","i","a","c">> (* common_iliac *)

\* C21: the vessel catalog is populated so that no entry is shadowed: for every
\* vessel name v of the catalog and every property keyword k, resolve(v + " " + k,
\* value) targets vessel v itself and not another catalog entry.
C21_NoCatalogEntryShadowed ==
    signal.msg = "classified" =>
        LET c == Cleaned(text) IN
        Cuts(c) # {} =>
            LET phrase == FieldPhrase(c) IN
            \A i \in DOMAIN vessel_names, k \in PropertyKeywords :
                phrase = vessel_names[i] \o <<" ">> (*   *) \o k =>
                    /\ result.kind = "set_vessel_field"
                    /\ result.params.vessel = Underscored(vessel_names[i])


\* the properties of a vessel in the order their keywords are looked for, each with
\* its keywords
PropertyOrder ==
    << [keywords |-> {<<"o","c","c","l","u","s","i","o","n">> (* occlusion *), <<"l","e","n","g","t","h">> (* length *)}, property |-> <<"o","c","c","l","u","s","i","o","n","_","l","e","n","g","t","h">> (* occlusion_length *)],
       [keywords |-> {<<"t","r","e","a","t","m","e","n","t">> (* treatment *)}, property |-> <<"t","r","e","a","t","m","e","n","t">> (* treatment *)],
       [keywords |-> {<<"t","a","s","c">> (* tasc *)}, property |-> <<"t","a","s","c">> (* tasc *)],
       [keywords |-> {<<"c","a","l","c","i","f","i","c","a","t","i","o","n">> (* calcification *)}, property |-> <<"c","a","l","c","i","f","i","c","a","t","i","o","n">> (* calcification *)] >>

\* the places in PropertyOrder that have a keyword in the phrase
PropertiesIn(phrase) ==
    {r \in DOMAIN PropertyOrder : \E k \in PropertyOrder[r].keywords : Occurs(phrase, k)}

\* the value as the normalizer of the property at place r makes it
NormalizedAt(r, value) ==
    CASE r = 1 -> normalize_length(value)
      [] r = 2 -> normalize_treatment(value)
      [] r = 3 -> normalize_tasc(value)
      [] r = 4 -> normalize_calcification(value)

\* C22: for a field phrase containing a vessel name, the property is chosen by
\* keyword presence in the order occlusion/length, treatment, tasc, calcification:
\* a phrase containing several property keywords resolves to the earliest in that
\* order, and the value is normalized by that property's normalizer.
C22_EarliestPropertyInOrder ==
    signal.msg = "classified" =>
        LET c == Cleaned(text) IN
        Cuts(c) # {} =>
            LET phrase == FieldPhrase(c)
                value == ValuePhrase(c)
                found == PropertiesIn(phrase)
            IN  (VesselsIn(phrase) # {} /\ found # {}) =>
                    /\ result.kind = "set_vessel_field"
                    /\ \E r \in found :
                          /\ \A q \in found : r <= q
                          /\ result.params.property = PropertyOrder[r].property
                          /\ result.params.value = NormalizedAt(r, value)

\* "treatment" came before "length" in the phrase and the length was set
C22_Witness ==
    /\ signal.msg = "classified"
    /\ Cleaned(text) = <<"s","e","t"," ","p","o","p","l","i","t","e","a","l"," ","t","r","e","a","t","m","e","n","t"," ","l","e","n","g","t","h"," ","t","o"," ","8"," ","c","e","n","t","i","m","e","t","e","r","s">> (* set popliteal treatment length to 8 centimeters *)
    /\ result = SetVesselField(<<"p","o","p","l","i","t","e","a","l">> (* popliteal *), <<"o","c","c","l","u","s","i","o","n","_","l","e","n","g","t","h">> (* occlusion_length *), <<"8"," ","c","m">> (* 8 cm *))

\* the standard fields in the order their keywords are looked for
StandardOrder ==
    << [keywords |-> {<<"s","i","d","e">> (* side *), <<"l","a","t","e","r","a","l","i","t","y">> (* laterality *)}, field |-> <<"p","r","o","c","e","d","u","r","e","_","s","i","d","e">> (* procedure_side *)],
       [keywords |-> {<<"a","c","c","e","s","s">> (* access *)}, field |-> <<"a","c","c","e","s","s","_","s","i","t","e">> (* access_site *)],
       [keywords |-> {<<"s","h","e","a","t","h">> (* sheath *)}, field |-> <<"s","h","e","a","t","h","_","s","i","z","e">> (* sheath_size *)],
       [keywords |-> {<<"c","l","o","s","u","r","e">> (* closure *), <<"m","y","n","x">> (* mynx *)}, field |-> <<"c","l","o","s","u","r","e","_","m","e","t","h","o","d">> (* closure_method *)] >>

\* the places in StandardOrder that have a keyword in the phrase
StandardIn(phrase) ==
    {r \in DOMAIN StandardOrder : \E k \in StandardOrder[r].keywords : Occurs(phrase, k)}

\* the least number of a set of numbers that is not empty
Least(places) == CHOOSE r \in places : \A q \in places : r <= q

\* the field the non-vessel rules give the phrase
StandardFieldOf(phrase) ==
    IF StandardIn(phrase) = {} THEN Underscored(phrase)
    ELSE StandardOrder[Least(StandardIn(phrase))].field

\* the value as the normalizer of the field the non-vessel rules give the phrase
\* makes it
StandardValueOf(phrase, value) ==
    IF StandardIn(phrase) = {} THEN value
    ELSE CASE Least(StandardIn(phrase)) = 1 -> normalize_side(value)
           [] Least(StandardIn(phrase)) = 2 -> normalize_access(value)
           [] Least(StandardIn(phrase)) = 3 -> normalize_sheath(value)
           [] Least(StandardIn(phrase)) = 4 -> normalize_closure(value)

\* C23: a field phrase that contains a vessel name but no property keyword never
\* yields SetVesselField and never fails: it is resolved by the non-vessel rules,
\* giving SetField with procedure_side / access_site / sheath_size /
\* closure_method or the generic underscore-joined key.
C23_VesselWithoutPropertyFallsThrough ==
    signal.msg = "classified" =>
        LET c == Cleaned(text) IN
        Cuts(c) # {} =>
            LET phrase == FieldPhrase(c)
                value == ValuePhrase(c)
            IN  (VesselsIn(phrase) # {} /\ PropertiesIn(phrase) = {}) =>
                    /\ result.kind = "set_field"
                    /\ result.params.field = StandardFieldOf(phrase)
                    /\ result.params.field \in
                          {<<"p","r","o","c","e","d","u","r","e","_","s","i","d","e">> (* procedure_side *), <<"a","c","c","e","s","s","_","s","i","t","e">> (* access_site *), <<"s","h","e","a","t","h","_","s","i","z","e">> (* sheath_size *),
                           <<"c","l","o","s","u","r","e","_","m","e","t","h","o","d">> (* closure_method *), Underscored(phrase)}
                    /\ result.params.value = StandardValueOf(phrase, value)

\* "popliteal sheath" set the sheath size, and "popliteal note" a field of that name
C23_Witness ==
    /\ signal.msg = "classified"
    /\ \/ /\ Cleaned(text) = <<"s","e","t"," ","p","o","p","l","i","t","e","a","l"," ","s","h","e","a","t","h"," ","t","o"," ","l","e","f","t"," ","f","e","m","o","r","a","l"," ","m","a","n","u","a","l"," ","6"," ","f","r","e","n","c","h">> (* set popliteal sheath to left femoral manual 6 french *)
          /\ result = SetField(<<"s","h","e","a","t","h","_","s","i","z","e">> (* sheath_size *), <<"6","f","r">> (* 6fr *))
       \/ /\ Cleaned(text) = <<"s","e","t"," ","p","o","p","l","i","t","e","a","l"," ","n","o","t","e"," ","t","o"," ","8"," ","c","e","n","t","i","m","e","t","e","r","s">> (* set popliteal note to 8 centimeters *)
          /\ result = SetField(<<"p","o","p","l","i","t","e","a","l","_","n","o","t","e">> (* popliteal_note *), <<"8"," ","c","e","n","t","i","m","e","t","e","r","s">> (* 8 centimeters *))

\* C24: for a field phrase with no vessel match, the field is chosen by the fixed
\* priority side/laterality -> procedure_side, access -> access_site, sheath ->
\* sheath_size, closure/mynx -> closure_method, otherwise the phrase with spaces
\* replaced by underscores; a phrase containing keywords of several entries
\* resolves to the earliest entry, and the value is normalized by the normalizer
\* of the chosen field.
C24_StandardFieldPriority ==
    signal.msg = "classified" =>
        LET c == Cleaned(text) IN
        Cuts(c) # {} =>
            LET phrase == FieldPhrase(c)
                value == ValuePhrase(c)
            IN  VesselsIn(phrase) = {} =>
                    result = SetField(StandardFieldOf(phrase), StandardValueOf(phrase, value))

\* "sheath" came before "access" in the phrase and the access site was set
C24_Witness ==
    /\ signal.msg = "classified"
    /\ Cleaned(text) = <<"s","e","t"," ","s","h","e","a","t","h"," ","a","c","c","e","s","s"," ","t","o"," ","l","e","f","t"," ","f","e","m","o","r","a","l"," ","m","a","n","u","a","l"," ","6"," ","f","r","e","n","c","h">> (* set sheath access to left femoral manual 6 french *)
    /\ result = SetField(<<"a","c","c","e","s","s","_","s","i","t","e">> (* access_site *), <<"f","e","m","o","r","a","l">> (* femoral *))

-----------------------------------------------------------------------------
(* Claims about the normalizers, each applied to a value on its own.       *)

\* a normalizer was applied to the value in text
Normalized(which) == signal.msg = "normalized" /\ result.kind = which

\* the first numeric token of v, an integer or a decimal: from the first digit on,
\* the longest stretch of digits with at most one point in it; <<>> without a digit
NumericToken(v) ==
    LET digits == {i \in DOMAIN v : v[i] \in Digits}
        first == Least(digits)
        numeric(j) ==
            /\ \A q \in first..j : v[q] \in Digits \cup {"."}
            /\ Cardinality({q \in first..j : v[q] = "."}) <= 1
        last == CHOOSE j \in first..Len(v) :
                    numeric(j) /\ \A q \in first..Len(v) : numeric(q) => q <= j
    IN  IF digits = {} THEN <<>> ELSE SubSeq(v, first, last)

\* C25: occlusion_length(v) returns '<first numeric token> cm' unless v contains
\* 'mm' or 'millimeter', in which case it returns '<first numeric token> mm' (also
\* when v additionally contains 'cm' or 'centimeter'); when v contains no number it
\* returns v unchanged.
C25_MillimetersWin ==
    Normalized("length") =>
        result.params.value =
            IF NumericToken(text) = <<>> THEN text
            ELSE IF Occurs(text, <<"m","m">> (* mm *)) \/ Occurs(text, <<"m","i","l","l","i","m","e","t","e","r">> (* millimeter *))
            THEN NumericToken(text) \o <<" ","m","m">> (*  mm *)
            ELSE NumericToken(text) \o <<" ","c","m">> (*  cm *)

\* the treatments in the order of their table, each with its keywords
TreatmentOrder ==
    << [keywords |-> {<<"p","t","a">> (* pta *), <<"a","n","g","i","o","p","l","a","s","t","y">> (* angioplasty *), <<"b","a","l","l","o","o","n">> (* balloon *)}, name |-> <<"P","T","A">> (* PTA *)],
       [keywords |-> {<<"s","t","e","n","t">> (* stent *), <<"s","t","e","n","t","i","n","g">> (* stenting *)}, name |-> <<"S","t","e","n","t">> (* Stent *)],
       [keywords |-> {<<"a","t","h","e","r","e","c","t","o","m","y">> (* atherectomy *)}, name |-> <<"A","t","h","e","r","e","c","t","o","m","y">> (* Atherectomy *)],
       [keywords |-> {<<"t","p","a">> (* tpa *)}, name |-> <<"T","P","A">> (* TPA *)],
       [keywords |-> {<<"t","h","r","o","m","b","o","l","y","s","i","s">> (* thrombolysis *)}, name |-> <<"M","e","c","h","a","n","i","c","a","l"," ","T","h","r","o","m","b","o","l","y","s","i","s">> (* Mechanical Thrombolysis *)] >>

\* the canonical value of the first entry of the table that has a keyword in the
\* lower-cased value, and the value itself when no entry has one
FirstOfTable(table, v) ==
    LET found == {r \in DOMAIN table : \E k \in table[r].keywords : Occurs(Lower(v), k)}
    IN  IF found = {} THEN v ELSE table[Least(found)].name

\* C26: treatment(v) returns 'PTA + Stent' whenever v contains, case-insensitively,
\* any one of the terms pta, angioplasty or balloon together with a stent term;
\* otherwise it returns the canonical name of the first entry of the ordered table
\* pta/angioplasty/balloon, stent/stenting, atherectomy, tpa, thrombolysis whose
\* keyword occurs in v, and v unchanged when none occurs.
C26_BalloonAndStent ==
    Normalized("treatment") =>
        result.params.value =
            IF /\ \E k \in TreatmentOrder[1].keywords : Occurs(Lower(text), k)
               /\ \E k \in TreatmentOrder[2].keywords : Occurs(Lower(text), k)
            THEN <<"P","T","A"," ","+"," ","S","t","e","n","t">> (* PTA + Stent *)
            ELSE FirstOfTable(TreatmentOrder, text)

\* C27: tasc(v) returns the upper-cased first character of v that is a letter in
\* a-d or A-D (so its result is a single letter A-D whenever v contains any such
\* letter, wherever it occurs inside a word), and the upper-cased whole value when
\* v contains none.
C27_TascFirstLetter ==
    Normalized("tasc") =>
        LET letters == {i \in DOMAIN text : text[i] \in {"a","b","c","d","A","B","C","D"}} IN
        IF letters # {}
        THEN /\ result.params.value = <<UpperChar(text[Least(letters)])>>
             /\ result.params.value \in {<<"A">> (* A *), <<"B">> (* B *), <<"C">> (* C *), <<"D">> (* D *)}
        ELSE result.params.value = Upper(text)

\* the d inside "mild" made the class D
C27_Witness ==
    /\ Normalized("tasc")
    /\ text = <<"r","i","g","h","t"," ","m","i","l","d">> (* right mild *)
    /\ result.params.value = <<"D">> (* D *)

\* the tables of the substring-table normalizers
CalcificationTable ==
    << [keywords |-> {<<"n","o","n","e">> (* none *)}, name |-> <<"n","o","n","e">> (* none *)],
       [keywords |-> {<<"m","i","l","d">> (* mild *)}, name |-> <<"m","i","l","d">> (* mild *)],
       [keywords |-> {<<"m","o","d","e","r","a","t","e">> (* moderate *)}, name |-> <<"m","o","d","e","r","a","t","e">> (* moderate *)],
       [keywords |-> {<<"s","e","v","e","r","e">> (* severe *), <<"h","e","a","v","y">> (* heavy *)}, name |-> <<"s","e","v","e","r","e">> (* severe *)] >>
SideTable ==
    << [keywords |-> {<<"l","e","f","t">> (* left *)}, name |-> <<"l","e","f","t">> (* left *)],
       [keywords |-> {<<"r","i","g","h","t">> (* right *)}, name |-> <<"r","i","g","h","t">> (* right *)],
       [keywords |-> {<<"b","o","t","h">> (* both *), <<"b","i","l","a","t","e","r","a","l">> (* bilateral *)}, name |-> <<"b","i","l","a","t","e","r","a","l">> (* bilateral *)] >>
AccessTable ==
    << [keywords |-> {<<"f","e","m","o","r","a","l">> (* femoral *)}, name |-> <<"f","e","m","o","r","a","l">> (* femoral *)],
       [keywords |-> {<<"r","a","d","i","a","l">> (* radial *)}, name |-> <<"r","a","d","i","a","l">> (* radial *)],
       [keywords |-> {<<"b","r","a","c","h","i","a","l">> (* brachial *)}, name |-> <<"b","r","a","c","h","i","a","l">> (* brachial *)],
       [keywords |-> {<<"p","o","p">> (* pop *), <<"p","o","p","l","i","t","e","a","l">> (* popliteal *)}, name |-> <<"p","o","p","l","i","t","e","a","l">> (* popliteal *)] >>
ClosureTable ==
    << [keywords |-> {<<"m","y","n","x">> (* mynx *)}, name |-> <<"m","y","n","x">> (* mynx *)],
       [keywords |-> {<<"m","a","n","u","a","l">> (* manual *), <<"p","r","e","s","s","u","r","e">> (* pressure *)}, name |-> <<"m","a","n","u","a","l">> (* manual *)] >>

\* C28: each substring-table normalizer (calcification, side, access_site,
\* closure_method) is total and lenient: it returns the canonical value of the
\* first table entry, in the listed order, whose keyword is a substring of the
\* lower-cased value, and returns the value unchanged when no keyword occurs.
C28_TableNormalizers ==
    /\ Normalized("calcification") => result.params.value = FirstOfTable(CalcificationTable, text)
    /\ Normalized("side") => result.params.value = FirstOfTable(SideTable, text)
    /\ Normalized("access") => result.params.value = FirstOfTable(AccessTable, text)
    /\ Normalized("closure") => result.params.value = FirstOfTable(ClosureTable, text)

\* a value with "right" before "Left" in it gave left
C28_Witness ==
    /\ Normalized("side")
    /\ text = <<"r","i","g","h","t"," ","L","e","f","t">> (* right Left *)
    /\ result.params.value = <<"l","e","f","t">> (* left *)

-----------------------------------------------------------------------------
(* Claims about the classifier and the letter case of the transcript.      *)

\* C29: classification is case-insensitive and ignores surrounding whitespace: for
\* every transcript t, classify(t) equals classify of t lower-cased and trimmed, so
\* two transcripts that differ only in letter case or in leading / trailing
\* whitespace produce the same command kind and the same parameters.
C29_CaseAndMarginsIgnored ==
    signal.msg = "classified" =>
        /\ result = parse(Cleaned(text))
        /\ Cleaned(text) = <<"s","e","t"," ","p","o","p","l","i","t","e","a","l"," ","t","a","s","c"," ","t","o"," ","b"," ","p","l","u","s">> (* set popliteal tasc to b plus *) =>
              result = SetVesselField(<<"p","o","p","l","i","t","e","a","l">> (* popliteal *), <<"t","a","s","c">> (* tasc *), <<"B">> (* B *))
        /\ Cleaned(text) = <<"s","a","v","e"," ","p","r","o","c","e","d","u","r","e">> (* save procedure *) => result = Command("save_procedure", NoParams)
        /\ Cleaned(text) = <<"t","h","a","n","k"," ","y","o","u">> (* thank you *) => result = None

\* a transcript in capitals with white space around it was classified
C29_Witness ==
    /\ signal.msg = "classified"
    /\ text = <<"\t", " ">> \o <<"F","I","L","L"," ","S","I","D","E"," ","A","S"," ","L","E","F","T"," ","G","R","O","I","N">> (* FILL SIDE AS LEFT GROIN *) \o <<NL>>
    /\ result = SetField(<<"p","r","o","c","e","d","u","r","e","_","s","i","d","e">> (* procedure_side *), <<"l","e","f","t">> (* left *))

-----------------------------------------------------------------------------
(* Claims about what process_command hands to the backend.                 *)

\* C30: while the backend is connected, every transcript classified as a command
\* hands its (command kind, params) to the backend exactly once, after the command
\* has been applied to the buffer: exactly one voice_command message per recognised
\* command, for every command kind including save_procedure.
C30_OneMessagePerCommand ==
    (result # None /\ ws_connected) =>
        sent = <<[command |-> result.kind, params |-> result.params]>>

\* C34: when the backend connection was never established (connect failed, offline
\* mode), no message is ever sent to the backend: a save command sends nothing and
\* leaves the buffer unchanged, and all other commands still mutate the buffer
\* locally exactly as they do when connected.
C34_OfflineSendsNothing ==
    ~ws_connected =>
        /\ ~client_connected
        /\ sent = <<>>
        /\ delivered = <<>>
        /\ result.kind = "save_procedure" => buffer = before
        /\ signal # Signal("ready") =>
              \E day \in DOMAIN Dates :
                  buffer = Dispatch(frontend, before, text, result, macros, Dates[day], TRUE).buf

\* without a backend a template was inserted, and a save was spoken after it
C34_Witness ==
    /\ ~ws_connected
    /\ result.kind = "save_procedure"
    /\ Occurs(buffer, <<"{">>)
    /\ buffer = before
    /\ sent = <<>>

-----------------------------------------------------------------------------
(* Claims about recordings, the hand-over queue and the terminal loop.     *)

\* C31: in the GUI front end, transcripts are applied to the narrative in the order
\* in which their recordings were stopped, even when a second recording is started
\* and stopped while the first one is still being transcribed on its background
\* thread: the transcript the main loop applies is that of the oldest recording
\* stopped and not applied yet.
C31_AppliedInStopOrder ==
    (frontend = "gui" /\ pc[Main].at = "process_command") =>
        pc[Main].text = Head(recordings)

\* a step that changes the queue puts one transcript at its end, or is a tick of
\* process_queue that takes the first one, and that one only, for processing
QueueStep ==
    transcription_queue' # transcription_queue =>
        \/ \E t \in ThreadTranscripts : transcription_queue' = Append(transcription_queue, t)
        \/ /\ polling /\ ~polling'
           /\ pc[Main].at = "idle"
           /\ transcription_queue' = Tail(transcription_queue)
           /\ pc'[Main] = Where("process_command", Head(transcription_queue))

\* between two ticks of process_queue the next tick is asked for
TickAskedFor == (frontend = "gui" /\ pc[Main].at # "process_command") => polling

\* C32: in the GUI front end, every transcript put on the transcription queue is
\* eventually taken and processed exactly once, in FIFO order and at most one per
\* polling tick; the polling of process_queue is rescheduled after every tick,
\* including a tick on which the queue is empty or on which processing the
\* transcript raises.
C32_QueueDrainedInOrder ==
    /\ []TickAskedFor
    /\ [][QueueStep]_vars
    /\ \A k \in 1..MaxQueueLen, t \in ThreadTranscripts :
          (Len(transcription_queue) >= k /\ transcription_queue[k] = t)
              ~> (pc[Main] = Where("process_command", t))

\* a tick has taken the first of two waiting transcripts, and the one before it
\* raised
C32_Witness ==
    /\ frontend = "gui"
    /\ pc[Main].at = "process_command"
    /\ Len(transcription_queue) = 1
    /\ pc[Main].text # transcription_queue[1]
    /\ recordings = <<pc[Main].text, transcription_queue[1]>>
    /\ signal = Signal("ready")

\* the terminal's loop takes a step
MainMoves == frontend = "ssh" /\ pc'[Main] # pc[Main]

\* what a step of the terminal's loop may do with the recording
TerminalStep ==
    MainMoves =>
        /\ (pc[Main].at = "record" /\ is_recording) =>
              /\ UNCHANGED <<is_recording, recorder, buffer, recordings>>
              /\ pc'[Main] = Idle
        /\ (pc[Main].at = "stop" /\ ~is_recording) =>
              /\ UNCHANGED <<is_recording, recorder, buffer, recordings>>
              /\ pc'[Main] = Idle
        /\ (pc'[Main].at = "transcribing") =>
              /\ pc[Main].at \in {"stop", "KeyboardInterrupt"}
              /\ is_recording /\ recorder.stream = "started"
        /\ (pc'[Main].at = "process_command") => pc[Main].at = "transcribing"
        /\ (pc[Main].at = "stop") => ~is_recording'
        /\ (pc[Main].at \in {"transcribing", "process_command"}) => ~is_recording'
        /\ (pc[Main].at = "KeyboardInterrupt" /\ is_recording) =>
              /\ ~is_recording'
              /\ recorder'.stream = "stopped"
              /\ running'

\* C33: in the terminal (SSH) front end, 'record' while already recording and
\* 'stop' while not recording change neither is_recording, the recorder nor the
\* buffer; a transcript is produced and processed only by a stop that follows a
\* record, is_recording is false after every stop whether or not transcription
\* succeeds, and Ctrl+C while recording stops the recording instead of ending the
\* session.
C33_TerminalRecording == [][TerminalStep]_vars

\* after a first dictation was applied, a second recording with audio in it was
\* stopped and is being transcribed, the session going on
C33_Witness ==
    /\ frontend = "ssh"
    /\ running
    /\ pc[Main].at = "transcribing"
    /\ ~is_recording
    /\ recorder = [stream |-> "stopped", frames |-> "some"]
    /\ buffer # <<>>

=============================================================================
